---- MODULE Spec2Model ----
(***************************************************************************)
(* A model of the template population engine of CV_bot                     *)
(* (src/parser/json_to_docx.py) and of the conversion pipeline around it   *)
(* (src/parser/pdf_to_docx.py).                                            *)
(*                                                                         *)
(* A document is a sequence of body paragraphs plus a sequence of tables.  *)
(* In the header mode a paragraph is [id, text]; in the marker mode, where *)
(* the runs of a paragraph matter, it is [id, runs], runs a sequence of    *)
(* texts.  id is the identity of the python-docx                           *)
(* paragraph element (it survives insertions and deletions around it),     *)
(* text is a sequence of tokens.  A token is [k, i, j]: k is the token's   *)
(* string, i and j tell data tokens of different items apart (0 for a      *)
(* token of the template).  Indices into a document are 0-based, as in the *)
(* source; None (-1) stands for Python's None.                             *)
(*                                                                         *)
(* Template strings are written in Latin transliteration:                  *)
(*   "proektnyj opyt"            'проектный опыт'                          *)
(*   "opyt raboty"               'опыт работы'                             *)
(*   "obshchaya informaciya"     'общая информация'                        *)
(*   "skrining"                  'скрининг'                                *)
(*   "mesto raboty / vremya"     'место работы / время'                    *)
(*   "rol:"                      'роль:'                                   *)
(*   "zadachi:"                  'задачи:'                                 *)
(*   "dostizheniya:"             'достижения:'                             *)
(*   "tekhnologii i instrumenty:" 'технологии и инструменты:'              *)
(*   "pitch"                     'питч'                                    *)
(*   "obrazovanie"               'образование'                             *)
(*   "vakansiya"                 'вакансия'                                *)
(*   "status"                    'статус'                                  *)
(*   "Mesto dlya ukazaniya vakansii"  'Место для указания вакансии'        *)
(*   "Rasskaz o sebe ot pervogo lica" 'Рассказ о себе от первого лица'     *)
(*   "MENEE 1 MESYACA"           'МЕНЕЕ 1 МЕСЯЦА'                          *)
(*   "(dash)"                    the em dash U+2014                        *)
(*   "(bullet)"                 the bullet glyph U+2022                   *)
(* English keywords that transliterate to the same string carry " (en)".   *)
(*                                                                         *)
(* Specifications:                                                         *)
(*   SpecFill     the project pass of the header mode, saving, reporting   *)
(*   SpecMarkers  the marker mode of fill_document                         *)
(*   SpecSlot     one call of find_empty_paragraph_after_header            *)
(*   SpecHeaders  the field steps of fill_by_headers_mode                  *)
(***************************************************************************)
EXTENDS Integers, Sequences, FiniteSets, TLC

VARIABLES
  doc,                \* doc.paragraphs: the body paragraphs
  tables,             \* doc.tables: table -> row -> cell -> paragraphs
  pc,                 \* position of the running function
  exc,                \* the exception that has been raised, "none" if none
  nextId,             \* identity given to the next created paragraph
  project_experience, \* argument of fill_project_experience_by_header
  real_projects,      \* its local: the non-placeholder items
  existing_blocks,    \* its local: the blocks found by pass 1
  block_idx,          \* its loop variable
  filled_count,       \* its counter
  result,             \* its return value (None while running)
  doc0,               \* the body paragraphs as pass 1 saw them
  writes,             \* history: every sub-slot write of pass 2
  removed,            \* history: identities of the paragraphs deleted
  output_path,        \* the output path asked for
  save_status,        \* how doc.save(output_path) ended: "none", "ok", "locked", "error"
  files,              \* the paths a document was written to
  docx_path,          \* ResumeConverter.docx_path after step 3 (<< >> before)
  output_file,        \* ConversionResult.output_file (<< >> while unset)
  data,               \* marker mode: the Record (json_data)
  template_paras_clean, \* marker mode: the template paragraphs of the block being expanded
  insert_idx,         \* marker mode: where the next clone is inserted
  item_no,            \* marker mode: number of items of the collection already expanded
  added_count,        \* marker mode: counter of the expanding function
  list_no,            \* marker mode: number of process_list_field calls made
  replaced_lists,     \* fill_document's local: sum of the process_list_field results
  work_count,         \* fill_document's local: result of process_work_experience
  project_count,       \* fill_document's local: result of process_project_experience
  keywords,           \* header_keywords of find_empty_paragraph_after_header
  target,             \* its return value
  replaced_count,     \* counter of fill_by_headers_mode
  calls,              \* the calls of the fill functions it has made
  cell_tables,        \* cell.tables of the first cell of the first table: the nested tables
  found_placeholders, \* fill_document's local: the marker names its scan has found
  has_placeholders,   \* fill_document's local: the class of the template
  called,             \* history: the functions fill_document has called
  paragraph,          \* the paragraph given to replace_text_preserving_format
  paragraph0,         \* history: the paragraph as it was given
  replace_args,       \* its arguments old_text, new_text, force_default_font
  replace_ret,        \* its return value ("None" while it has not returned)
  today,              \* date.today(): [year, month]
  work_experience,    \* the argument of the experience functions
  projects,           \* the argument of sort_projects_by_date
  period_range,       \* the value parse_period_range has returned
  experience_months,  \* the value calculate_experience_months has returned
  experience_summary, \* the value format_experience_summary has returned
  sorted_projects,    \* the value sort_projects_by_date has returned
  request,            \* the extraction step: its mode, the keys and what the providers answer
  extraction,         \* the extraction step: the exception it ended with, its value, its calls
  last_used_provider_info, \* ai_provider._last_used_provider_info, the module global
  conversions,        \* the _process_file invocations of the bot and their converters
  temp_dirs,          \* the temporary directories that exist
  next_document,      \* identity given to the next Document instance
  list_args,          \* the arguments of the list function that is called
  list_ret,           \* the value it has returned ("None" while it has not)
  label_args,         \* label_text and value_text of write_label_and_value
  LAST_FILES,         \* bot.LAST_FILES: user -> the document kept for regeneration
  PENDING_REGENERATE, \* bot.PENDING_REGENERATE: user -> the document awaiting a comment
  updates,            \* the handler invocations of the bot that have not returned
  journal             \* history: what the users have done and what the bot has started

None == -1

\* the look-ahead windows of the scanners
TaskLookahead == 10
FieldsMaxSearch == 20
BlockWindow == 25
BlocksMaxSearch == 200
HeaderMaxSearch == 15

\* bounds of the model
MaxRows == 3
MaxCols == 2
MaxBlocks == 2
MaxTaskSlots == 2
MaxAchievementSlots == 1
MaxItems == 2
MaxTasks == 2
MaxAchievements == 1

----------------------------------------------------------------------------
(* Text                                                                    *)

Tok(s) == [k |-> s, i |-> 0, j |-> 0]
Data(s, i, j) == [k |-> s, i |-> i, j |-> j]
Txt(s) == IF s = "" THEN << >> ELSE << Tok(s) >>

\* The keywords (lower case) that occur as substrings of a token string,
\* lower-cased.  Data tokens hold none.
Keywords(s) ==
  CASE s = "PROEKTNYJ OPYT" -> {"proektnyj opyt", "proekt"}
    [] s = "PROJECT EXPERIENCE" -> {"project experience", "project"}
    [] s = "OPYT RABOTY" -> {"opyt raboty"}
    [] s = "SKRINING" -> {"skrining"}
    [] s = "OBRAZOVANIE" -> {"obrazovanie"}
    [] s = "NAVYKI" -> {"navyki"}
    [] s = "VAKANSIYA" -> {"vakansiya"}
    [] s = "PITCH" -> {"pitch"}
    [] s = "STATUS" -> {"status"}
    [] s = "Hard skills" -> {"hard skills", "hard"}
    [] s = "Soft skills" -> {"soft skills", "soft"}
    [] s = "OPYT RABOTY:" -> {"opyt raboty"}
    [] s = "Mesto dlya ukazaniya vakansii" -> {"mesto dlya ukazaniya"}
    [] s = "Rasskaz o sebe ot pervogo lica" -> {"rasskaz o sebe", "rasskaz", "o sebe"}
    [] s = "Mesto raboty / vremya" -> {"mesto raboty / vremya", "mesto raboty"}
    [] s = "Rol:" -> {"rol:"}
    [] s = "Zadachi:" -> {"zadachi:"}
    [] s = "Dostizheniya:" -> {"dostizheniya:", "dostizheniya"}
    [] s = "Tekhnologii i instrumenty:" -> {"tekhnologii i instrumenty", "tekhnologii"}
    [] s = "Tekhnologii:" -> {"tekhnologii:", "tekhnologii"}
    [] OTHER -> {}

\* kw in text.lower()
Contains(text, kw) == \E n \in 1..Len(text) : kw \in Keywords(text[n].k)

\* any(kw in text.lower() for kw in kws)
ContainsAny(text, kws) == \E kw \in kws : Contains(text, kw)

\* not text.strip()
IsBlank(text) == Len(text) = 0

Min(S) == CHOOSE x \in S : \A y \in S : x <= y

----------------------------------------------------------------------------
(* Document access                                                         *)

\* doc.paragraphs[n] and its text, n counted from 0
Para(d, n) == d[n + 1]
Text(d, n) == d[n + 1].text

Ids(d) == {d[n].id : n \in 1..Len(d)}

\* position (from 0) of the paragraph with identity id, None if it is gone
IndexOf(d, id) ==
  IF \E n \in 1..Len(d) : d[n].id = id
  THEN (CHOOSE n \in 1..Len(d) : d[n].id = id) - 1
  ELSE None

\* para._element.getparent().remove(para._element)
RemoveAt(d, n) == SubSeq(d, 1, n) \o SubSeq(d, n + 2, Len(d))

\* doc.paragraphs[n].insert_paragraph_after(): p becomes paragraph n + 1
InsertAfter(d, n, p) == SubSeq(d, 1, n + 1) \o << p >> \o SubSeq(d, n + 2, Len(d))

\* doc.paragraphs[n].insert_paragraph_before(): p becomes paragraph n
InsertBefore(d, n, p) == SubSeq(d, 1, n) \o << p >> \o SubSeq(d, n + 1, Len(d))

SetText(d, n, text) == [d EXCEPT ![n + 1].text = text]

----------------------------------------------------------------------------
(* Header search (find_section_by_header)                                  *)

\* The cells of the tables in reading order, as <<table, row, cell>>
CellPositions(tbls) ==
  {<<t, r, c>> \in (1..Len(tbls)) \X (1..MaxRows) \X (1..MaxCols) :
     r <= Len(tbls[t]) /\ c <= Len(tbls[t][r])}

CellAt(tbls, pos) == tbls[pos[1]][pos[2]][pos[3]]

\* a paragraph of the cell holds one of the keywords
CellHasKeyword(cell, kws) ==
  \E n \in 1..Len(cell) : ContainsAny(cell[n].text, kws)

PosBefore(a, b) ==
  \/ a[1] < b[1]
  \/ a[1] = b[1] /\ a[2] < b[2]
  \/ a[1] = b[1] /\ a[2] = b[2] /\ a[3] < b[3]

\* ('paragraph', i + 1 or i) for the first body paragraph holding a keyword,
\* else ('table', (t, r, c)) for the first such cell, else None.
\* Table positions are kept 1-based.
find_section_by_header(d, tbls, header_keywords) ==
  LET hits == {n \in 0..(Len(d) - 1) : ContainsAny(Text(d, n), header_keywords)}
      cells == {pos \in CellPositions(tbls) :
                  CellHasKeyword(CellAt(tbls, pos), header_keywords)}
  IN IF hits # {}
     THEN LET i == Min(hits)
          IN [type |-> "paragraph", idx |-> IF i + 1 < Len(d) THEN i + 1 ELSE i,
              pos |-> <<0, 0, 0>>]
     ELSE IF cells # {}
     THEN [type |-> "table", idx |-> None,
           pos |-> CHOOSE pos \in cells : \A q \in cells : q = pos \/ PosBefore(pos, q)]
     ELSE [type |-> "none", idx |-> None, pos |-> <<0, 0, 0>>]

----------------------------------------------------------------------------
(* Pass 1: discovery of the repeated blocks                                *)

SectionBreakKeywords ==
  {"opyt raboty", "obshchaya informaciya", "skrining",
   "work experience", "general info", "screening"}

IsCompanyLine(text) ==
  Contains(text, "mesto raboty / vremya") \/ Contains(text, "mesto raboty")

NoFields ==
  [company |-> None, role_label |-> None, role_value |-> None,
   tasks_label |-> None, tasks_fields |-> << >>,
   achievements_label |-> None, achievements_fields |-> << >>,
   tech_label |-> None, tech_value |-> None]

\* the inner loop after the label 'задачи:' : for j in range(i + 1, min(i + 10, len))
RECURSIVE TaskSlots(_, _, _, _)
TaskSlots(d, j, stop, acc) ==
  IF j >= stop THEN acc
  ELSE LET t == Text(d, j) IN
       IF Contains(t, "dostizheniya") \/ Contains(t, "tekhnologii") \/ Contains(t, "mesto raboty")
       THEN acc
       ELSE IF ~IsBlank(t) /\ ~ContainsAny(t, {"zadachi:", "rol:", "tekhnologii:", "mesto raboty"})
       THEN TaskSlots(d, j + 1, stop, Append(acc, j))
       ELSE TaskSlots(d, j + 1, stop, acc)

\* the inner loop after the label 'достижения'
RECURSIVE AchievementSlots(_, _, _, _)
AchievementSlots(d, j, stop, acc) ==
  IF j >= stop THEN acc
  ELSE LET t == Text(d, j) IN
       IF Contains(t, "tekhnologii") \/ Contains(t, "mesto raboty")
       THEN acc
       ELSE IF ~IsBlank(t) /\ ~ContainsAny(t, {"zadachi:", "rol:", "tekhnologii:",
                                               "mesto raboty", "dostizheniya:"})
       THEN AchievementSlots(d, j + 1, stop, Append(acc, j))
       ELSE AchievementSlots(d, j + 1, stop, acc)

MinOf(a, b) == IF a < b THEN a ELSE b

\* the loop of find_project_block_fields: for i in range(start_idx, stop)
RECURSIVE FieldsLoop(_, _, _, _)
FieldsLoop(d, i, stop, f) ==
  IF i >= stop THEN f
  ELSE LET t == Text(d, i) IN
    IF ContainsAny(t, SectionBreakKeywords) THEN f
    ELSE IF f.company = None /\ IsCompanyLine(t)
    THEN FieldsLoop(d, i + 1, stop, [f EXCEPT !.company = i])
    ELSE IF f.role_label = None /\ Contains(t, "rol:")
    THEN FieldsLoop(d, i + 1, stop,
           [f EXCEPT !.role_label = i,
                     !.role_value =
                        IF i + 1 < Len(d)
                           /\ ~ContainsAny(Text(d, i + 1),
                                 {"zadachi:", "tekhnologii:", "mesto raboty", "rol:"})
                        THEN i + 1 ELSE None])
    ELSE IF f.tasks_label = None /\ Contains(t, "zadachi:")
    THEN FieldsLoop(d, i + 1, stop,
           [f EXCEPT !.tasks_label = i,
                     !.tasks_fields =
                        TaskSlots(d, i + 1, MinOf(i + TaskLookahead, Len(d)), << >>)])
    ELSE IF f.achievements_label = None /\ Contains(t, "dostizheniya")
    THEN FieldsLoop(d, i + 1, stop,
           [f EXCEPT !.achievements_label = i,
                     !.achievements_fields =
                        AchievementSlots(d, i + 1, MinOf(i + TaskLookahead, Len(d)), << >>)])
    ELSE IF f.tech_label = None
            /\ (Contains(t, "tekhnologii i instrumenty") \/ Contains(t, "tekhnologii:"))
    THEN [f EXCEPT !.tech_label = i,
                   !.tech_value =
                      IF i + 1 < Len(d)
                         /\ ~ContainsAny(Text(d, i + 1),
                               {"mesto raboty", "rol:", "zadachi:", "tekhnologii:"})
                      THEN i + 1 ELSE None]
    ELSE FieldsLoop(d, i + 1, stop, f)

find_project_block_fields(d, start_idx) ==
  FieldsLoop(d, start_idx, MinOf(start_idx + FieldsMaxSearch, Len(d)), NoFields)

\* the loop of find_all_project_blocks that fixes the end of a block:
\* for i in range(current_idx, min(current_idx + 25, len)); st = [block_end, found]
RECURSIVE BlockEndLoop(_, _, _, _, _)
BlockEndLoop(d, cur, i, stop, st) ==
  IF i >= stop THEN st.block_end
  ELSE LET t == Text(d, i) IN
    IF IsCompanyLine(t) /\ i > cur THEN i
    ELSE IF ContainsAny(t, SectionBreakKeywords) THEN i
    ELSE IF Contains(t, "tekhnologii") /\ ~st.found
    THEN BlockEndLoop(d, cur, i + 1, stop,
           [found |-> TRUE,
            block_end |-> IF i + 1 < Len(d)
                          THEN (IF ~Contains(Text(d, i + 1), "mesto raboty")
                                THEN i + 2 ELSE i + 1)
                          ELSE i + 1])
    ELSE IF st.found /\ ~IsBlank(t)
            /\ ContainsAny(t, {"mesto raboty", "rol:", "zadachi:", "tekhnologii:"})
            /\ Contains(t, "mesto raboty")
    THEN i
    ELSE BlockEndLoop(d, cur, i + 1, stop, [st EXCEPT !.block_end = i + 1])

\* the while loop of find_all_project_blocks
RECURSIVE BlocksLoop(_, _, _, _)
BlocksLoop(d, header_idx, current_idx, blocks) ==
  IF ~(current_idx < Len(d) /\ current_idx < header_idx + BlocksMaxSearch) THEN blocks
  ELSE LET t == Text(d, current_idx) IN
    IF ContainsAny(t, SectionBreakKeywords) THEN blocks
    ELSE IF IsCompanyLine(t)
    THEN LET block_fields == find_project_block_fields(d, current_idx)
         IN IF block_fields.company # None \/ block_fields.role_label # None
            THEN LET block_end ==
                       BlockEndLoop(d, current_idx, current_idx,
                                    MinOf(current_idx + BlockWindow, Len(d)),
                                    [found |-> FALSE, block_end |-> current_idx])
                 IN BlocksLoop(d, header_idx, block_end,
                      Append(blocks, [start_idx |-> current_idx,
                                      end_idx |-> block_end,
                                      fields |-> block_fields]))
            ELSE BlocksLoop(d, header_idx, current_idx + 1, blocks)
    ELSE BlocksLoop(d, header_idx, current_idx + 1, blocks)

find_all_project_blocks(d, header_idx) ==
  BlocksLoop(d, header_idx, header_idx + 1, << >>)

----------------------------------------------------------------------------
(* List normalisation and bullet rendering                                 *)

\* text.replace('•', '').strip(): the item without its bullet glyphs
StripBullet(item) == IF item.k = "(bullet)" THEN Tok("") ELSE item

RECURSIVE NormalizeLoop(_, _, _)
NormalizeLoop(items, placeholders, acc) ==
  IF items = << >> THEN acc
  ELSE LET text == StripBullet(Head(items))
       IN NormalizeLoop(Tail(items), placeholders,
            IF text.k # "" /\ text.k \notin placeholders THEN Append(acc, text) ELSE acc)

normalize_bullet_items(items, placeholders) == NormalizeLoop(items, placeholders, << >>)

\* f"• {text}"
Bullet(item) == << Tok("(bullet)"), item >>

\* sorted(set(idx for idx in indices if idx is not None))
RECURSIVE SortedSeq(_)
SortedSeq(S) ==
  IF S = {} THEN << >> ELSE LET m == Min(S) IN << m >> \o SortedSeq(S \ {m})

SortedIndices(indices) ==
  SortedSeq({indices[n] : n \in 1..Len(indices)} \ {None})

\* A frame holds what a step of pass 2 reads and changes.
Frame(d, nid, w, r, e) == [doc |-> d, nextId |-> nid, writes |-> w, removed |-> r, exc |-> e]

Raise(S, name) == [S EXCEPT !.exc = name]

\* the surplus paragraphs removed in ascending order of their indices
RECURSIVE RemoveAscending(_, _, _)
RemoveAscending(S, sorted_indices, m) ==
  IF m > Len(sorted_indices) THEN S
  ELSE LET idx == sorted_indices[m]
       IN RemoveAscending(
            IF idx < Len(S.doc)
            THEN [S EXCEPT !.doc = RemoveAt(@, idx),
                           !.removed = @ \cup {Para(S.doc, idx).id}]
            ELSE S,
            sorted_indices, m + 1)

RemoveSurplusAscending(S, sorted_indices, n) == RemoveAscending(S, sorted_indices, 2)

\* for idx in reversed(sorted_indices[1:]): remove paragraph idx if idx < len
RECURSIVE RemoveSurplus(_, _, _)
RemoveSurplus(S, sorted_indices, n) ==
  IF n < 2 THEN S
  ELSE LET idx == sorted_indices[n]
       IN RemoveSurplus(
            IF idx < Len(S.doc)
            THEN [S EXCEPT !.doc = RemoveAt(@, idx),
                           !.removed = @ \cup {Para(S.doc, idx).id}]
            ELSE S,
            sorted_indices, n - 1)

\* for i, text in enumerate(normalized): the first goes to paragraph at, every
\* further one to a new paragraph inserted after the previous one
RECURSIVE WriteBullets(_, _, _, _)
WriteBullets(S, at, normalized, n) ==
  IF n > Len(normalized) THEN S
  ELSE IF n = 1
  THEN WriteBullets([S EXCEPT !.doc = SetText(@, at, Bullet(normalized[1]))],
                    at, normalized, 2)
  ELSE WriteBullets(
         [S EXCEPT !.doc = InsertAfter(@, at, [id |-> S.nextId, text |-> Bullet(normalized[n])]),
                   !.nextId = @ + 1],
         at + 1, normalized, n + 1)

\* set_bullet_list_in_document(doc, indices, items); slot names the list for
\* the history of writes.  The returned flag is ignored by its caller.
set_bullet_list_in_document(S, blk, slot, indices, items) ==
  LET normalized == normalize_bullet_items(items, {})
      sorted_indices == SortedIndices(indices)
  IN IF indices = << >> \/ normalized = << >> \/ sorted_indices = << >> THEN S
     ELSE LET base_idx == sorted_indices[1]
              S1 == RemoveSurplus(S, sorted_indices, Len(sorted_indices))
          IN IF base_idx >= Len(S1.doc) THEN S1
             ELSE WriteBullets(
                    [S1 EXCEPT !.writes = @ \cup
                        {[block |-> blk, slot |-> slot,
                          found |-> Para(doc0, base_idx).id,
                          landed |-> Para(S1.doc, base_idx).id]}],
                    base_idx, normalized, 1)

----------------------------------------------------------------------------
(* Pass 2: filling one block (fill_single_project_block)                   *)

\* uppercase_duration_words: the duration words of the line in capitals
uppercase_duration_words(tok) ==
  IF tok.k = "Acme / 2020 - 2021, 1 god" THEN [tok EXCEPT !.k = "Acme / 2020 - 2021, 1 GOD"]
  ELSE tok

\* replace_text_preserving_format(para, para.text, text) on paragraph idx:
\* the whole text is replaced
ReplaceWhole(S, blk, slot, idx, text) ==
  [S EXCEPT !.doc = SetText(@, idx, text),
            !.writes = @ \cup {[block |-> blk, slot |-> slot,
                                found |-> Para(doc0, idx).id,
                                landed |-> Para(S.doc, idx).id]}]

\* a label paragraph is rewritten only when it lacks its label
EnsureLabel(S, blk, slot, idx, kw, label) ==
  IF S.exc # "none" \/ idx = None THEN S
  ELSE IF idx >= Len(S.doc) THEN Raise(S, "IndexError")
  ELSE IF Contains(Text(S.doc, idx), kw) THEN S
  ELSE ReplaceWhole(S, blk, slot, idx, Txt(label))

\* 1. 'Место работы / время'
FillCompany(S, blk, f, item) ==
  IF f.company = None THEN S
  ELSE IF f.company >= Len(S.doc) THEN Raise(S, "IndexError")
  ELSE IF item.company.k # "" /\ item.company.k # "Mesto raboty / vremya"
  THEN ReplaceWhole(S, blk, "company", f.company, << uppercase_duration_words(item.company) >>)
  ELSE S

\* 2. 'Роль'
FillRoleValue(S, blk, f, item) ==
  IF S.exc # "none" \/ f.role_value = None THEN S
  ELSE IF f.role_value >= Len(S.doc) THEN Raise(S, "IndexError")
  ELSE IF item.role.k # "" /\ item.role.k # "Rol:"
  THEN ReplaceWhole(S, blk, "role_value", f.role_value, << item.role >>)
  ELSE ReplaceWhole(S, blk, "role_value", f.role_value, << >>)

FillRole(S, blk, f, item) ==
  FillRoleValue(EnsureLabel(S, blk, "role_label", f.role_label, "rol:", "Rol:"), blk, f, item)

\* 3. 'Задачи' and 'Достижения'
FillTaskList(S, blk, f, item) ==
  LET real_tasks == normalize_bullet_items(item.tasks, {"Zadachi"})
  IN IF S.exc # "none" \/ real_tasks = << >> THEN S
     ELSE set_bullet_list_in_document(S, blk, "tasks", f.tasks_fields, real_tasks)

FillAchievementList(S, blk, f, item) ==
  LET real_achievements == normalize_bullet_items(item.achievements, {"Dostizheniya"})
  IN IF S.exc # "none" \/ real_achievements = << >> THEN S
     ELSE set_bullet_list_in_document(S, blk, "achievements", f.achievements_fields,
                                      real_achievements)

FillTasks(S, blk, f, item) ==
  FillAchievementList(
    FillTaskList(EnsureLabel(S, blk, "tasks_label", f.tasks_label, "zadachi:", "Zadachi:"),
                 blk, f, item),
    blk, f, item)

\* real_tech = [t for t in technologies if t != 'Технологии и инструменты' and t.strip()]
RECURSIVE RealTech(_)
RealTech(technologies) ==
  IF technologies = << >> THEN << >>
  ELSE (IF Head(technologies).k \notin {"Tekhnologii i instrumenty", ""}
        THEN << Head(technologies) >> ELSE << >>) \o RealTech(Tail(technologies))

\* flatten_technology_entries is called in fill_single_project_block and is
\* defined nowhere in the module: evaluating the call raises NameError.
FlattenTechnologyEntries(S) == Raise(S, "NameError")

\* 4. 'Технологии и инструменты'
FillTechValue(S, blk, f, item) ==
  IF S.exc # "none" \/ f.tech_value = None THEN S
  ELSE IF f.tech_value >= Len(S.doc) THEN Raise(S, "IndexError")
  ELSE IF item.technologies_and_tools # << >>
          /\ item.technologies_and_tools # << Tok("Tekhnologii i instrumenty") >>
          /\ RealTech(item.technologies_and_tools) # << >>
  THEN FlattenTechnologyEntries(S)
  ELSE ReplaceWhole(S, blk, "tech_value", f.tech_value, << >>)

FillTech(S, blk, f, item) ==
  FillTechValue(
    EnsureLabel(S, blk, "tech_label", f.tech_label, "tekhnologii", "Tekhnologii i instrumenty:"),
    blk, f, item)

----------------------------------------------------------------------------
(* Templates and records of the heuristic (header) mode                    *)

\* One repeated block of the template: the company line, the role label and
\* its value line, the tasks label and its slots, optionally the achievements
\* label and its slots, the technologies label and optionally its value line.
\* "..." is the placeholder text of a slot.
Repeat(n, s) == [x \in 1..n |-> s]

BlockTexts(shape) ==
  << "Mesto raboty / vremya", "Rol:", "...", "Zadachi:" >>
  \o Repeat(shape.tasks, "...")
  \o (IF shape.ach >= 0 THEN << "Dostizheniya:" >> \o Repeat(shape.ach, "...") ELSE << >>)
  \o << "Tekhnologii i instrumenty:" >>
  \o (IF shape.tech_value THEN << "..." >> ELSE << >>)

RECURSIVE Blocks(_, _)
Blocks(n, shape) == IF n = 0 THEN << >> ELSE BlockTexts(shape) \o Blocks(n - 1, shape)

WithIds(texts) == [n \in 1..Len(texts) |-> [id |-> n, text |-> Txt(texts[n])]]

\* title, section header, B equal blocks, optionally a closing paragraph
ProjectTemplate(B, shape, trailer) ==
  WithIds(<< "Rezyume", "PROEKTNYJ OPYT" >> \o Blocks(B, shape)
          \o (IF trailer THEN << "Kontakty" >> ELSE << >>))

BlockShapes ==
  [tasks : 0..MaxTaskSlots, ach : (-1)..MaxAchievementSlots, tech_value : BOOLEAN]

\* item number i of project_experience
ProjectItem(i, prof) ==
  IF prof.placeholder
  THEN [company |-> Tok("Mesto raboty / vremya"), role |-> Tok("Rol"),
        tasks |-> << Tok("Zadachi") >>, achievements |-> << >>,
        technologies_and_tools |-> << Tok("Tekhnologii i instrumenty") >>]
  ELSE [company |-> Data("Acme / 2020 - 2021, 1 god", i, 0), role |-> Data("Developer", i, 0),
        tasks |-> [n \in 1..prof.tasks |-> Data("task", i, n)],
        achievements |-> [n \in 1..prof.ach |-> Data("achievement", i, n)],
        technologies_and_tools |-> [n \in 1..prof.tech |-> Data("tool", i, n)]]

ItemProfiles ==
  [placeholder : {FALSE}, tasks : 0..MaxTasks, ach : 0..MaxAchievements, tech : 0..1]
  \cup {[placeholder |-> TRUE, tasks |-> 0, ach |-> 0, tech |-> 0]}

\* the argument project_experience: item i has the profile profs[i]
ProjectList(profs) == [i \in 1..Len(profs) |-> ProjectItem(i, profs[i])]

\* the placeholder filter of fill_project_experience_by_header
IsRealProject(p) ==
  \/ p.company.k \notin {"Mesto raboty / vremya", ""} /\ p.role.k \notin {"Rol", ""}
  \/ p.tasks # << >> /\ p.tasks # << Tok("Zadachi") >>
  \/ p.technologies_and_tools # << >>
     /\ p.technologies_and_tools # << Tok("Tekhnologii i instrumenty") >>

RECURSIVE RealProjects(_)
RealProjects(ps) ==
  IF ps = << >> THEN << >>
  ELSE (IF IsRealProject(Head(ps)) THEN << Head(ps) >> ELSE << >>) \o RealProjects(Tail(ps))

ProjectHeaderKeywords ==
  {"proektnyj opyt", "project experience", "project_experience", "proektnyj opyt:"}

----------------------------------------------------------------------------
(* Saving (fill_document) and reporting the path (step3_json_to_docx)      *)

\* datetime.now(), its fields already zero-padded
Clock ==
  {[Y |-> "2026", m |-> "01", d |-> "02", H |-> "03", M |-> "04", S |-> "05"],
   [Y |-> "2026", m |-> "11", d |-> "30", H |-> "23", M |-> "59", S |-> "59"]}

\* now.strftime(fmt): directives are replaced, other characters kept
Strftime(now, fmt) ==
  [n \in 1..Len(fmt) |->
     CASE fmt[n] = "%Y" -> now.Y [] fmt[n] = "%m" -> now.m [] fmt[n] = "%d" -> now.d
       [] fmt[n] = "%H" -> now.H [] fmt[n] = "%M" -> now.M [] fmt[n] = "%S" -> now.S
       [] OTHER -> fmt[n]]

TimestampFormat == << "%Y", "%m", "%d", "_", "%H", "%M", "%S" >>

\* A path is <<base, ..., extension>>; os.path.splitext cuts the last part off.
\* f"{base_name}_{timestamp}{extension}"
FallbackPath(path, now) ==
  SubSeq(path, 1, Len(path) - 1) \o << "_" >> \o Strftime(now, TimestampFormat)
  \o << path[Len(path)] >>

----------------------------------------------------------------------------
(* Specification SpecFill: step 3 of a conversion on a marker-free         *)
(* template whose section 'проектный опыт' is made of paragraphs, for a    *)
(* record that holds project_experience only.                              *)
(*   _run_step3 -> step3_json_to_docx -> fill_document                     *)
(*     -> fill_by_headers_mode -> fill_project_experience_by_header        *)
(*     -> doc.save -> return                                               *)

markerVars ==
  << data, template_paras_clean, insert_idx, item_no, added_count, list_no,
     replaced_lists, work_count, project_count >>

headerVars == << keywords, target, replaced_count, calls >>

documentVars == << cell_tables, found_placeholders, has_placeholders, called >>

\* the variables of the specifications other than the four of the engine's passes
runVars == << paragraph, paragraph0, replace_args, replace_ret >>

dateVars ==
  << today, work_experience, projects, period_range, experience_months,
     experience_summary, sorted_projects >>

pipelineVars ==
  << request, extraction, last_used_provider_info, conversions, temp_dirs, next_document >>

\* the arguments of the list and label functions called on their own
callVars == << list_args, list_ret, label_args >>

botVars == << LAST_FILES, PENDING_REGENERATE, updates, journal >>

laterVars == << callVars, botVars >>

restVars == << documentVars, runVars, dateVars, pipelineVars, laterVars >>

vars ==
  << doc, tables, pc, exc, nextId, project_experience, real_projects, existing_blocks,
     block_idx, filled_count, result, doc0, writes, removed, output_path, save_status,
     files, docx_path, output_file, markerVars, headerVars, restVars >>

\* the marker mode is not running
MarkerIdle ==
  /\ data = [work_experience |-> << >>, project_experience |-> << >>]
  /\ template_paras_clean = << >>
  /\ insert_idx = 0
  /\ item_no = 0
  /\ added_count = 0
  /\ list_no = 0
  /\ replaced_lists = 0
  /\ work_count = None
  /\ project_count = None

\* the header mode's field steps are not running
HeaderIdle ==
  /\ keywords = {}
  /\ target = [type |-> "none", idx |-> None, pos |-> <<0, 0, 0>>, n |-> 0]
  /\ replaced_count = 0
  /\ calls = << >>

\* fill_document is not classifying a template
DocumentIdle ==
  /\ cell_tables = << >>
  /\ found_placeholders = << >>
  /\ has_placeholders = FALSE
  /\ called = << >>

\* replace_text_preserving_format is not running
RunIdle ==
  /\ paragraph = [id |-> 0, runs |-> << >>, fonts |-> << >>]
  /\ paragraph0 = paragraph
  /\ replace_args = [old_text |-> "", new_text |-> << >>, force_default_font |-> FALSE]
  /\ replace_ret = "None"

\* the period functions are not running
DateIdle ==
  /\ today = [year |-> 2026, month |-> 11]
  /\ work_experience = << >>
  /\ projects = << >>
  /\ period_range = << >>
  /\ experience_months = None
  /\ experience_summary = << >>
  /\ sorted_projects = << >>

\* _last_used_provider_info as the module defines it
NoProvider == [provider |-> "None", model |-> "None"]

PipelineIdle ==
  /\ request = << >>
  /\ extraction = << >>
  /\ last_used_provider_info = NoProvider
  /\ conversions = << >>
  /\ temp_dirs = {}
  /\ next_document = 1

\* no list or label function is called on its own
CallIdle ==
  /\ list_args = << >>
  /\ list_ret = "None"
  /\ label_args = << >>

\* the bot has received nothing
BotIdle ==
  /\ LAST_FILES = << >>
  /\ PENDING_REGENERATE = << >>
  /\ updates = << >>
  /\ journal = << >>

LaterIdle == CallIdle /\ BotIdle

RestIdle == DocumentIdle /\ RunIdle /\ DateIdle /\ PipelineIdle /\ LaterIdle

fillVars ==
  << project_experience, real_projects, existing_blocks, block_idx, filled_count,
     result, doc0, writes, removed >>

saveVars == << output_path, save_status, files, docx_path, output_file >>

InitFill ==
  /\ \E B \in 1..MaxBlocks, shape \in BlockShapes, trailer \in BOOLEAN :
       doc = ProjectTemplate(B, shape, trailer)
  /\ tables = << >>
  /\ \E n \in 1..MaxItems : \E profs \in [1..n -> ItemProfiles] :
       project_experience = ProjectList(profs)
  /\ pc = "open"
  /\ exc = "none"
  /\ nextId = Len(doc) + 1
  /\ real_projects = << >>
  /\ existing_blocks = << >>
  /\ block_idx = 0
  /\ filled_count = 0
  /\ result = None
  /\ doc0 = doc
  /\ writes = {}
  /\ removed = {}
  /\ output_path = << "/tmp/cv", ".docx" >>
  /\ save_status = "none"
  /\ files = {}
  /\ docx_path = << >>
  /\ output_file = << >>
  /\ MarkerIdle
  /\ HeaderIdle
  /\ RestIdle

\* doc = Document(template_path): raises when the template cannot be opened
OpenTemplate ==
  /\ pc = "open"
  /\ \E opened \in BOOLEAN :
       IF opened
       THEN pc' = "fill_projects" /\ exc' = exc
       ELSE pc' = "raised" /\ exc' = "PackageNotFoundError"
  /\ UNCHANGED << doc, tables, nextId >>
  /\ UNCHANGED fillVars
  /\ UNCHANGED saveVars
  /\ UNCHANGED markerVars
  /\ UNCHANGED restVars
  /\ UNCHANGED headerVars

\* fill_project_experience_by_header up to its loop: header search, placeholder
\* filter, pass 1
FillProjectsStart ==
  /\ pc = "fill_projects"
  /\ LET header_info == find_section_by_header(doc, tables, ProjectHeaderKeywords)
         actual_header_idx == IF header_info.idx > 0 THEN header_info.idx - 1 ELSE 0
         real == RealProjects(project_experience)
         blocks == find_all_project_blocks(doc, actual_header_idx)
     IN IF header_info.type # "paragraph" \/ real = << >> \/ blocks = << >>
        THEN /\ result' = 0
             /\ pc' = "save"
             /\ UNCHANGED << real_projects, existing_blocks >>
        ELSE /\ real_projects' = real
             /\ existing_blocks' = blocks
             /\ result' = result
             /\ pc' = "loop"
  /\ doc0' = doc
  /\ UNCHANGED << doc, tables, exc, nextId, project_experience, block_idx, filled_count,
                  writes, removed >>
  /\ UNCHANGED saveVars
  /\ UNCHANGED markerVars
  /\ UNCHANGED restVars
  /\ UNCHANGED headerVars

\* for block_idx, block in enumerate(existing_blocks): a block that has an item
BeginBlock ==
  /\ pc = "loop"
  /\ block_idx < Len(existing_blocks)
  /\ block_idx < Len(real_projects)
  /\ pc' = "company"
  /\ UNCHANGED << doc, tables, exc, nextId >>
  /\ UNCHANGED fillVars
  /\ UNCHANGED saveVars
  /\ UNCHANGED markerVars
  /\ UNCHANGED restVars
  /\ UNCHANGED headerVars

\* a block beyond the items: the loop body does nothing
SkipBlock ==
  /\ pc = "loop"
  /\ block_idx < Len(existing_blocks)
  /\ block_idx >= Len(real_projects)
  /\ block_idx' = block_idx + 1
  /\ UNCHANGED << doc, tables, pc, exc, nextId, project_experience, real_projects,
                  existing_blocks, filled_count, result, doc0, writes, removed >>
  /\ UNCHANGED saveVars
  /\ UNCHANGED markerVars
  /\ UNCHANGED restVars
  /\ UNCHANGED headerVars

\* return filled_count
ReturnFilledCount ==
  /\ pc = "loop"
  /\ block_idx >= Len(existing_blocks)
  /\ result' = filled_count
  /\ pc' = "save"
  /\ UNCHANGED << doc, tables, exc, nextId, project_experience, real_projects,
                  existing_blocks, block_idx, filled_count, doc0, writes, removed >>
  /\ UNCHANGED saveVars
  /\ UNCHANGED markerVars
  /\ UNCHANGED restVars
  /\ UNCHANGED headerVars

CurrentFrame == Frame(doc, nextId, writes, removed, "none")
CurrentFields == existing_blocks[block_idx + 1].fields
CurrentItem == real_projects[block_idx + 1]

\* the outcome of a step of fill_single_project_block: an exception ends the fill
Commit(S, next) ==
  /\ doc' = S.doc
  /\ nextId' = S.nextId
  /\ writes' = S.writes
  /\ removed' = S.removed
  /\ exc' = S.exc
  /\ pc' = IF S.exc = "none" THEN next ELSE "raised"

StepCompany ==
  /\ pc = "company"
  /\ Commit(FillCompany(CurrentFrame, block_idx, CurrentFields, CurrentItem), "role")
  /\ UNCHANGED << tables, project_experience, real_projects, existing_blocks, block_idx,
                  filled_count, result, doc0 >>
  /\ UNCHANGED saveVars
  /\ UNCHANGED markerVars
  /\ UNCHANGED restVars
  /\ UNCHANGED headerVars

StepRole ==
  /\ pc = "role"
  /\ Commit(FillRole(CurrentFrame, block_idx, CurrentFields, CurrentItem), "tasks")
  /\ UNCHANGED << tables, project_experience, real_projects, existing_blocks, block_idx,
                  filled_count, result, doc0 >>
  /\ UNCHANGED saveVars
  /\ UNCHANGED markerVars
  /\ UNCHANGED restVars
  /\ UNCHANGED headerVars

StepTasks ==
  /\ pc = "tasks"
  /\ Commit(FillTasks(CurrentFrame, block_idx, CurrentFields, CurrentItem), "tech")
  /\ UNCHANGED << tables, project_experience, real_projects, existing_blocks, block_idx,
                  filled_count, result, doc0 >>
  /\ UNCHANGED saveVars
  /\ UNCHANGED markerVars
  /\ UNCHANGED restVars
  /\ UNCHANGED headerVars

\* the last step of the block, then filled_count += 1 and the next block
StepTech ==
  /\ pc = "tech"
  /\ LET S == FillTech(CurrentFrame, block_idx, CurrentFields, CurrentItem)
     IN /\ Commit(S, "loop")
        /\ filled_count' = IF S.exc = "none" THEN filled_count + 1 ELSE filled_count
        /\ block_idx' = IF S.exc = "none" THEN block_idx + 1 ELSE block_idx
  /\ UNCHANGED << tables, project_experience, real_projects, existing_blocks, result, doc0 >>
  /\ UNCHANGED saveVars
  /\ UNCHANGED markerVars
  /\ UNCHANGED restVars
  /\ UNCHANGED headerVars

\* doc.save(output_path)
Save ==
  /\ pc = "save"
  /\ \E outcome \in {"ok", "locked", "error"} :
       /\ save_status' = outcome
       /\ files' = IF outcome = "ok" THEN files \cup {output_path} ELSE files
       /\ exc' = IF outcome = "error" THEN "OSError" ELSE exc
       /\ pc' = CASE outcome = "ok" -> "step3_return"
                  [] outcome = "locked" -> "fallback"
                  [] OTHER -> "raised"
  /\ UNCHANGED << doc, tables, nextId, output_path, docx_path, output_file >>
  /\ UNCHANGED fillVars
  /\ UNCHANGED markerVars
  /\ UNCHANGED restVars
  /\ UNCHANGED headerVars

\* except PermissionError: doc.save(new_output_path), once
FallbackSave ==
  /\ pc = "fallback"
  /\ \E now \in Clock, saved \in BOOLEAN :
       IF saved
       THEN /\ files' = files \cup {FallbackPath(output_path, now)}
            /\ pc' = "step3_return"
            /\ exc' = exc
       ELSE /\ files' = files
            /\ pc' = "raised"
            /\ exc' = "OSError"
  /\ UNCHANGED << doc, tables, nextId, output_path, save_status, docx_path, output_file >>
  /\ UNCHANGED fillVars
  /\ UNCHANGED markerVars
  /\ UNCHANGED restVars
  /\ UNCHANGED headerVars

\* fill_document returns nothing; step3_json_to_docx returns str(docx_path),
\* which _run_step3 stores in self.docx_path
Step3Return ==
  /\ pc = "step3_return"
  /\ docx_path' = output_path
  /\ pc' = "result"
  /\ UNCHANGED << doc, tables, exc, nextId, output_path, save_status, files, output_file >>
  /\ UNCHANGED fillVars
  /\ UNCHANGED markerVars
  /\ UNCHANGED restVars
  /\ UNCHANGED headerVars

\* ConversionResult(output_file=self.docx_path, ...)
BuildResult ==
  /\ pc = "result"
  /\ output_file' = docx_path
  /\ pc' = "done"
  /\ UNCHANGED << doc, tables, exc, nextId, output_path, save_status, files, docx_path >>
  /\ UNCHANGED fillVars
  /\ UNCHANGED markerVars
  /\ UNCHANGED restVars
  /\ UNCHANGED headerVars

NextFill ==
  \/ OpenTemplate
  \/ FillProjectsStart
  \/ BeginBlock
  \/ SkipBlock
  \/ ReturnFilledCount
  \/ StepCompany
  \/ StepRole
  \/ StepTasks
  \/ StepTech
  \/ Save
  \/ FallbackSave
  \/ Step3Return
  \/ BuildResult

SpecFill == InitFill /\ [][NextFill]_vars

----------------------------------------------------------------------------
(* Claims checked under SpecFill                                           *)

\* the function has returned its count
Returned == result # None

\* block b (from 0) is paired with an item and its fill has ended
Filled(b) == b < block_idx /\ b < Len(real_projects)

\* the bullets of the record's item b (from 0): its tasks and achievements
ItemBullets(b) ==
  LET item == real_projects[b + 1]
  IN {item.tasks[n] : n \in 1..Len(item.tasks)}
     \cup {item.achievements[n] : n \in 1..Len(item.achievements)}

\* C1: with B >= 1 discovered blocks and P >= 1 non-placeholder items,
\* fill_project_experience_by_header raises no exception, returns min(B, P)
\* having filled that many blocks, and adds no block to the document.
C1_FillsMinOfBlocksAndItems ==
  (Len(existing_blocks) >= 1 /\ Len(real_projects) >= 1) =>
     /\ exc \notin {"IndexError", "NameError"}
     /\ Returned => /\ result = MinOf(Len(existing_blocks), Len(real_projects))
                    /\ filled_count = result
     /\ \A n \in 1..Len(doc) : doc[n].id \notin Ids(doc0) => ~IsCompanyLine(doc[n].text)

\* C4: every write to a sub-slot lands on the paragraph that pass 1 discovered
\* for it, also after paragraphs were inserted or removed by earlier writes.
C4_WritesLandOnDiscoveredParagraph ==
  \A w \in writes : w.landed = w.found

\* C5: no content is lost: every task and achievement of an item that was
\* paired with a block stands in the document once that block is filled, also
\* when pass 1 discovered no slot for the list.
C5_NoContentLost ==
  \A b \in 0..(MaxBlocks - 1) :
     Filled(b) =>
       \A t \in ItemBullets(b) : \E n \in 1..Len(doc) : doc[n].text = Bullet(t)

\* C6: a block whose index is not below the number of items is left as it
\* was: each of its paragraphs is still in the document with the same text.
C6_SurplusBlocksLeftAsIs ==
  \A b \in 1..Len(existing_blocks) :
     b - 1 >= Len(real_projects) =>
       \A n \in existing_blocks[b].start_idx .. (existing_blocks[b].end_idx - 1) :
          n < Len(doc0) =>
            \E m \in 1..Len(doc) : doc[m] = Para(doc0, n)

\* the path <base>_<YYYYMMDDHHMMSS><ext> for the time now
ClaimedFallbackPath(path, now) ==
  SubSeq(path, 1, Len(path) - 1)
  \o << "_", now.Y, now.m, now.d, now.H, now.M, now.S, path[Len(path)] >>

\* C8: when saving to the path asked for fails with PermissionError, the
\* document is written to <base>_<YYYYMMDDHHMMSS><ext>, and the path reported
\* by step 3 and by ConversionResult.output_file is the path written.
C8_ReportedPathIsWrittenPath ==
  (save_status = "locked" /\ pc = "done") =>
     /\ \E now \in Clock : files = {ClaimedFallbackPath(output_path, now)}
     /\ docx_path \in files
     /\ output_file \in files

\* C9: fill_document raises only when the template cannot be opened or the
\* saving fails; no step of the fill raises, whatever the record.
C9_OnlyOpenAndSaveRaise ==
  pc = "raised" => exc \in {"PackageNotFoundError", "OSError"}

----------------------------------------------------------------------------
(* Marker mode: texts, runs and the block between two markers              *)

\* the text of a paragraph: the texts of its runs, concatenated
RECURSIVE Concat(_)
Concat(runs) == IF runs = << >> THEN << >> ELSE Head(runs) \o Concat(Tail(runs))

RunsText(p) == Concat(p.runs)

\* placeholder in text
HasToken(text, placeholder) == \E n \in 1..Len(text) : text[n] = Tok(placeholder)

\* text.replace(placeholder, new)
RECURSIVE StrReplace(_, _, _)
StrReplace(text, placeholder, new) ==
  IF text = << >> THEN << >>
  ELSE (IF Head(text) = Tok(placeholder) THEN new ELSE << Head(text) >>)
       \o StrReplace(Tail(text), placeholder, new)

\* ':' in a token's string
HasColon(tok) == tok.k \in {"Rol: ", "Rol:", "Tekhnologii: ", "Tekhnologii:", "Backend: "}

\* sep.join(parts), each part a text
RECURSIVE Join(_, _)
Join(sep, parts) ==
  IF parts = << >> THEN << >>
  ELSE IF Len(parts) = 1 THEN parts[1]
  ELSE parts[1] \o << Tok(sep) >> \o Join(sep, Tail(parts))

\* "\n".join([f"(bullet) {item}" for item in items]) if items else ""
BulletLines(items) == Join("\n", [n \in 1..Len(items) |-> Bullet(items[n])])

\* '\n'.join(tech) if any(':' in t for t in tech) else ", ".join(tech)
TechText(tech) ==
  IF \E n \in 1..Len(tech) : \E m \in 1..Len(tech[n]) : HasColon(tech[n][m])
  THEN Join("\n", tech) ELSE Join(", ", tech)

\* replace_text_preserving_format(paragraph, old_text, new_text) for a
\* placeholder: the whole new text goes to the first run, the other runs go
replace_text_preserving_format(p, old_text, new_text) ==
  IF ~HasToken(RunsText(p), old_text) THEN p
  ELSE [p EXCEPT !.runs = << StrReplace(RunsText(p), old_text, new_text) >>]

\* set_paragraph_text(paragraph, text, template_para): one new run
set_paragraph_text(p, text) == [p EXCEPT !.runs = << text >>]

\* label_text = full_text[:colon_idx + 1].rstrip()
RstripLabel(tok) ==
  CASE tok.k = "Rol: " -> Tok("Rol:")
    [] tok.k = "Tekhnologii: " -> Tok("Tekhnologii:")
    [] tok.k = "Backend: " -> [tok EXCEPT !.k = "Backend:"]
    [] OTHER -> tok

\* normalize_label_value_format: the text up to the first colon becomes the
\* label run, the rest (stripped) the value run, a blank run between them
normalize_label_value_format(p) ==
  LET full_text == RunsText(p)
      colons == {n \in 1..Len(full_text) : HasColon(full_text[n])}
  IN IF colons = {} THEN p
     ELSE LET colon_idx == Min(colons)
              label_text == SubSeq(full_text, 1, colon_idx - 1)
                            \o << RstripLabel(full_text[colon_idx]) >>
              value_text == SubSeq(full_text, colon_idx + 1, Len(full_text))
          IN [p EXCEPT !.runs = << label_text >>
                         \o (IF value_text # << >> THEN << << Tok(" ") >>, value_text >>
                             ELSE << >>)]

\* the loop of find_template_block; st = [start_idx, end_idx]
RECURSIVE FindBlockLoop(_, _, _, _, _)
FindBlockLoop(d, i, start_marker, end_marker, start_idx) ==
  IF i >= Len(d) THEN [start_idx |-> start_idx, end_idx |-> None]
  ELSE LET text == RunsText(Para(d, i))
           s == IF HasToken(text, start_marker) THEN i ELSE start_idx
       IN IF s # None /\ HasToken(text, end_marker)
          THEN [start_idx |-> s, end_idx |-> i]
          ELSE FindBlockLoop(d, i + 1, start_marker, end_marker, s)

\* find_template_block: None is a block without end_idx
find_template_block(d, start_marker, end_marker) ==
  FindBlockLoop(d, 0, start_marker, end_marker, None)

BlockFound(block) == block.start_idx # None /\ block.end_idx # None

\* [p for p in template_paras if start_marker not in p.text and end_marker not in p.text]
RECURSIVE CleanParas(_, _, _, _, _)
CleanParas(d, i, last, start_marker, end_marker) ==
  IF i > last THEN << >>
  ELSE (IF ~HasToken(RunsText(Para(d, i)), start_marker)
           /\ ~HasToken(RunsText(Para(d, i)), end_marker)
        THEN << Para(d, i) >> ELSE << >>)
       \o CleanParas(d, i + 1, last, start_marker, end_marker)

\* for para in ...: strip the start marker, then the end marker
StripMarkers(d, from, to, start_marker, end_marker) ==
  [n \in 1..Len(d) |->
     IF n - 1 >= from /\ n - 1 <= to
     THEN replace_text_preserving_format(
            replace_text_preserving_format(d[n], start_marker, << >>), end_marker, << >>)
     ELSE d[n]]

\* for i in range(end_idx - 1, start_idx, -1): remove paragraph i if i < len
RECURSIVE RemoveBetween(_, _, _)
RemoveBetween(d, i, start_idx) ==
  IF i <= start_idx THEN d
  ELSE RemoveBetween(IF i < Len(d) THEN RemoveAt(d, i) ELSE d, i - 1, start_idx)

----------------------------------------------------------------------------
(* Marker mode: templates and records                                      *)

MaxTemplateParas == 2
MaxMarkerItems == 5
MaxListEntries == 2

StartMarker(name) ==
  CASE name = "work_experience" -> "{{#work_experience}}"
    [] name = "project_experience" -> "{{#project_experience}}"
    [] name = "skills_and_tools" -> "{{#skills_and_tools}}"
    [] name = "education" -> "{{#education}}"
    [] name = "hard_skills" -> "{{#hard_skills}}"
    [] name = "soft_skills" -> "{{#soft_skills}}"

EndMarker(name) ==
  CASE name = "work_experience" -> "{{/work_experience}}"
    [] name = "project_experience" -> "{{/project_experience}}"
    [] name = "skills_and_tools" -> "{{/skills_and_tools}}"
    [] name = "education" -> "{{/education}}"
    [] name = "hard_skills" -> "{{/hard_skills}}"
    [] name = "soft_skills" -> "{{/soft_skills}}"

SimplePlaceholder(name) ==
  CASE name = "skills_and_tools" -> "{{skills_and_tools}}"
    [] name = "education" -> "{{education}}"
    [] name = "hard_skills" -> "{{hard_skills}}"
    [] name = "soft_skills" -> "{{soft_skills}}"

\* the four process_list_field calls of fill_document, in order
ListFields == << "skills_and_tools", "education", "hard_skills", "soft_skills" >>

\* template paragraphs (their runs) a block may hold between its markers
TemplateParaKinds(name) ==
  CASE name = "work_experience" ->
         { << << Tok("{{company}}") >>, << Tok(", "), Tok("{{position}}") >> >>,
           << << Tok("{{period}}") >> >>,
           << << Tok("{{responsibilities}}") >> >>,
           << << Tok("Tekhnologii: "), Tok("{{technologies}}") >> >> }
    [] name = "project_experience" ->
         { << << Tok("{{company}}") >> >>,
           << << Tok("Rol: ") >>, << Tok("{{role}}") >> >>,
           << << Tok("{{tasks}}") >> >>,
           << << Tok("Tekhnologii: "), Tok("{{technologies_and_tools}}") >> >> }
    [] OTHER ->
         { << << Tok("(bullet)"), Tok("primer") >> >>,
           << << Tok("(bullet)") >>, << Tok("primer") >> >>,
           << << Tok("primer") >> >>,
           << >> }

\* '{{vacancy}}', the start marker, the template paragraphs, the end marker,
\* a closing paragraph
MarkerTemplate(name, kinds) ==
  LET runs == << << << Tok("{{vacancy}}") >> >>, << << Tok(StartMarker(name)) >> >> >>
              \o kinds
              \o << << << Tok(EndMarker(name)) >> >>, << << Tok("Kontakty") >> >> >>
  IN [n \in 1..Len(runs) |-> [id |-> n, runs |-> runs[n]]]

\* entry n of a list of item i: plain, or 'category: value'
ListEntry(s, i, n, categorised) ==
  IF categorised THEN << Data("Backend: ", i, n), Data(s, i, n) >> ELSE << Data(s, i, n) >>

WorkItem(i, prof) ==
  [company |-> Data("company", i, 0), position |-> Data("position", i, 0),
   period |-> Data("period", i, 0),
   responsibilities |-> [n \in 1..prof.entries |-> Data("responsibility", i, n)],
   technologies |-> [n \in 1..prof.entries |-> ListEntry("technology", i, n, prof.categorised)]]

MarkerProjectItem(i, prof) ==
  [company |-> Data("company", i, 0), role |-> Data("role", i, 0),
   tasks |-> [n \in 1..prof.entries |-> Data("task", i, n)],
   technologies_and_tools |->
      [n \in 1..prof.entries |-> ListEntry("tool", i, n, prof.categorised)]]

MarkerProfiles == [entries : {0, MaxListEntries}, categorised : BOOLEAN]

\* the value of a list field: K entries; is_list is FALSE when the Record
\* lacks the field (value.get(key, {}) is then a dict)
ListValue(K, prof) ==
  [is_list |-> TRUE, items |-> [n \in 1..K |-> ListEntry("skill", 0, n, prof.categorised)]]

Absent == [is_list |-> FALSE, items |-> << >>]

\* the Record: the collection of the template's block holds K items; the
\* other collections hold one item or none
MarkerRecord(name, K, prof, others) ==
  [vacancy |-> Data("vacancy", 0, 0),
   work_experience |->
      IF name = "work_experience" THEN [i \in 1..K |-> WorkItem(i, prof)]
      ELSE IF others THEN << WorkItem(1, prof) >> ELSE << >>,
   project_experience |->
      IF name = "project_experience" THEN [i \in 1..K |-> MarkerProjectItem(i, prof)]
      ELSE IF others THEN << MarkerProjectItem(1, prof) >> ELSE << >>,
   lists |->
      [f \in {"skills_and_tools", "education", "hard_skills", "soft_skills"} |->
         IF f = name THEN (IF K = 0 /\ others THEN Absent ELSE ListValue(K, prof))
         ELSE IF others /\ f # "education" THEN ListValue(1, prof) ELSE Absent]]

----------------------------------------------------------------------------
(* Marker mode: the functions of fill_document's placeholder branch        *)

\* process_simple_fields on the body: '{{vacancy}}' is replaced in every
\* paragraph that holds it (the other simple fields are not in the templates)
process_simple_fields(d, record) ==
  [n \in 1..Len(d) |-> replace_text_preserving_format(d[n], "{{vacancy}}", << record.vacancy >>)]

\* the list text of the simple-placeholder branch of process_list_field
SimpleListText(name, items) ==
  IF name = "skills_and_tools"
     /\ \E n \in 1..Len(items) : \E m \in 1..Len(items[n]) : HasColon(items[n][m])
  THEN Join("\n\n", items)
  ELSE Join("\n", [n \in 1..Len(items) |-> << Tok("(bullet)") >> \o items[n]])

\* the first template paragraph that holds no marker and is not blank
FirstTemplatePara(tps, start_marker, end_marker) ==
  LET ok == {n \in 1..Len(tps) :
               /\ ~HasToken(RunsText(tps[n]), start_marker)
               /\ ~HasToken(RunsText(tps[n]), end_marker)
               /\ RunsText(tps[n]) # << >>}
  IN IF ok = {} THEN 0 ELSE Min(ok)

\* the runs of a paragraph cloned for one list item
ListItemRuns(name, template_para, items, item) ==
  LET is_with_categories ==
        name = "skills_and_tools"
        /\ \E n \in 1..Len(items) : \E m \in 1..Len(items[n]) : HasColon(items[n][m])
      template_text == RunsText(template_para)
      text_value ==
        IF ~(is_with_categories /\ \E m \in 1..Len(item) : HasColon(item[m]))
           /\ template_text # << >> /\ template_text[1].k \in {"(bullet)", "-"}
        THEN << Tok("(bullet)") >> \o item ELSE item
  IN IF template_para.runs # << >>
     THEN [r \in 1..Len(template_para.runs) |-> text_value]
     ELSE << item >>

\* for item in value: new_para = doc.paragraphs[insert_idx].insert_paragraph_before()
RECURSIVE InsertListItems(_, _, _, _, _, _)
InsertListItems(S, at, name, template_para, items, n) ==
  IF n > Len(items) \/ S.exc # "none" THEN S
  ELSE IF at >= Len(S.doc) THEN Raise(S, "IndexError")
  ELSE InsertListItems(
         [S EXCEPT !.doc = InsertBefore(@, at,
                              [id |-> S.nextId,
                               runs |-> ListItemRuns(name, template_para, items, items[n])]),
                   !.nextId = @ + 1],
         at + 1, name, template_para, items, n + 1)

\* process_list_field(doc, data, field_path, placeholder_name); the frame's
\* field ret is the value returned
process_list_field(S, record, name) ==
  LET value == record.lists[name]
      start_marker == StartMarker(name)
      end_marker == EndMarker(name)
      block == find_template_block(S.doc, start_marker, end_marker)
  IN IF ~value.is_list THEN [S EXCEPT !.ret = 0]
     ELSE IF ~BlockFound(block)
     THEN LET found == \E n \in 1..Len(S.doc) :
                          HasToken(RunsText(S.doc[n]), SimplePlaceholder(name))
          IN [S EXCEPT !.doc = [n \in 1..Len(@) |->
                                  replace_text_preserving_format(
                                    @[n], SimplePlaceholder(name),
                                    SimpleListText(name, value.items))],
                       !.ret = IF found THEN 1 ELSE 0]
     ELSE LET S1 == [S EXCEPT !.doc = StripMarkers(@, block.start_idx, block.end_idx,
                                                   start_marker, end_marker)]
              template_paras == SubSeq(S1.doc, block.start_idx + 1, block.end_idx + 1)
              t == FirstTemplatePara(template_paras, start_marker, end_marker)
          IN IF value.items = << >> \/ t = 0 THEN [S1 EXCEPT !.ret = 0]
             ELSE LET S2 == [S1 EXCEPT !.doc = RemoveBetween(@, block.end_idx - 1,
                                                             block.start_idx)]
                      S3 == InsertListItems(S2, block.start_idx + 1, name, template_paras[t],
                                            value.items, 1)
                  IN [S3 EXCEPT !.ret = 1]

\* the paragraph cloned from template_para for one item of work_experience
WorkClone(id, template_para, work_item) ==
  LET text0 == RunsText(template_para)
      text1 == StrReplace(text0, "{{company}}", << work_item.company >>)
      text2 == StrReplace(text1, "{{position}}", << work_item.position >>)
      para_text == StrReplace(text2, "{{period}}", << work_item.period >>)
      p1 == set_paragraph_text([id |-> id, runs |-> << >>], para_text)
      p2 == IF HasToken(para_text, "{{responsibilities}}")
            THEN replace_text_preserving_format(p1, "{{responsibilities}}",
                                                BulletLines(work_item.responsibilities))
            ELSE p1
  IN IF HasToken(para_text, "{{technologies}}")
     THEN replace_text_preserving_format(p2, "{{technologies}}",
                                         TechText(work_item.technologies))
     ELSE p2

\* the paragraph cloned from template_para for one item of project_experience
ProjectClone(id, template_para, project_item) ==
  LET template_text == RunsText(template_para)
      has_role_placeholder == HasToken(template_text, "{{role}}")
      has_tech_placeholder == HasToken(template_text, "{{technologies_and_tools}}")
      text1 == StrReplace(template_text, "{{company}}", << project_item.company >>)
      para_text == StrReplace(text1, "{{role}}", << project_item.role >>)
      p1 == set_paragraph_text([id |-> id, runs |-> << >>], para_text)
      p2 == IF has_role_placeholder THEN normalize_label_value_format(p1) ELSE p1
      p3 == IF HasToken(para_text, "{{tasks}}")
            THEN replace_text_preserving_format(p2, "{{tasks}}",
                                                BulletLines(project_item.tasks))
            ELSE p2
  IN IF HasToken(para_text, "{{technologies_and_tools}}")
     THEN LET p4 == replace_text_preserving_format(
                      p3, "{{technologies_and_tools}}",
                      TechText(project_item.technologies_and_tools))
          IN IF has_tech_placeholder THEN normalize_label_value_format(p4) ELSE p4
     ELSE p3

Clone(name, id, template_para, item) ==
  IF name = "work_experience" THEN WorkClone(id, template_para, item)
  ELSE ProjectClone(id, template_para, item)

\* for template_para in template_paras_clean: the clones of one item, each
\* inserted before doc.paragraphs[insert_idx]; ret is the new insert_idx
RECURSIVE CloneGroup(_, _, _, _, _)
CloneGroup(S, name, tps, item, n) ==
  IF n > Len(tps) \/ S.exc # "none" THEN S
  ELSE IF S.ret >= Len(S.doc) THEN Raise(S, "IndexError")
  ELSE CloneGroup(
         [S EXCEPT !.doc = InsertBefore(@, S.ret, Clone(name, S.nextId, tps[n], item)),
                   !.nextId = @ + 1,
                   !.ret = @ + 1],
         name, tps, item, n + 1)

\* what a function of the marker mode reads and changes
MarkerFrame(d, nid, r) == [doc |-> d, nextId |-> nid, exc |-> "none", ret |-> r]

----------------------------------------------------------------------------
(* Specification SpecMarkers: the placeholder branch of fill_document on a *)
(* template that holds '{{vacancy}}' and one marker block.                 *)
(*   process_simple_fields -> process_list_field x 4                       *)
(*     -> process_work_experience -> process_project_experience            *)

MarkerBlocks == {"work_experience", "project_experience", "skills_and_tools", "hard_skills"}

\* the header mode and the saving are not running
FillIdle ==
  /\ project_experience = << >>
  /\ real_projects = << >>
  /\ existing_blocks = << >>
  /\ block_idx = 0
  /\ filled_count = 0
  /\ result = None
  /\ writes = {}
  /\ removed = {}
  /\ output_path = << "/tmp/cv", ".docx" >>
  /\ save_status = "none"
  /\ files = {}
  /\ docx_path = << >>
  /\ output_file = << >>

InitMarkers ==
  /\ \E name \in MarkerBlocks, N \in 1..MaxTemplateParas, K \in 0..MaxMarkerItems,
        prof \in MarkerProfiles, others \in BOOLEAN :
       \E kinds \in [1..N -> TemplateParaKinds(name)] :
          /\ doc = MarkerTemplate(name, kinds)
          /\ data = MarkerRecord(name, K, prof, others)
  /\ tables = << >>
  /\ doc0 = doc
  /\ nextId = Len(doc) + 1
  /\ pc = "simple"
  /\ exc = "none"
  /\ template_paras_clean = << >>
  /\ insert_idx = 0
  /\ item_no = 0
  /\ added_count = 0
  /\ list_no = 0
  /\ replaced_lists = 0
  /\ work_count = None
  /\ project_count = None
  /\ FillIdle
  /\ HeaderIdle
  /\ RestIdle

\* replaced_simple = process_simple_fields(doc, json_data)
ProcessSimpleFields ==
  /\ pc = "simple"
  /\ doc' = process_simple_fields(doc, data)
  /\ pc' = "lists"
  /\ UNCHANGED << tables, exc, nextId >>
  /\ UNCHANGED markerVars
  /\ UNCHANGED restVars
  /\ UNCHANGED fillVars
  /\ UNCHANGED headerVars
  /\ UNCHANGED saveVars

\* replaced_lists += process_list_field(doc, json_data, [...], name), for the
\* four list fields in turn
ProcessListField ==
  /\ pc = "lists"
  /\ LET S == process_list_field(MarkerFrame(doc, nextId, 0), data, ListFields[list_no + 1])
     IN /\ doc' = S.doc
        /\ nextId' = S.nextId
        /\ exc' = S.exc
        /\ replaced_lists' = IF S.exc = "none" THEN replaced_lists + S.ret ELSE replaced_lists
        /\ list_no' = list_no + 1
        /\ pc' = IF S.exc # "none" THEN "raised"
                 ELSE IF list_no + 1 = Len(ListFields) THEN "work_experience" ELSE "lists"
  /\ UNCHANGED << tables, data, template_paras_clean, insert_idx, item_no, added_count,
                  work_count, project_count >>
  /\ UNCHANGED fillVars
  /\ UNCHANGED restVars
  /\ UNCHANGED headerVars
  /\ UNCHANGED saveVars

\* process_work_experience / process_project_experience up to the loop over
\* the items: the early returns, the markers stripped, the template
\* paragraphs removed
ExpandStart(name, after) ==
  /\ pc = name
  /\ LET start_marker == StartMarker(name)
         end_marker == EndMarker(name)
         block == find_template_block(doc, start_marker, end_marker)
         clean == IF BlockFound(block)
                  THEN CleanParas(doc, block.start_idx, block.end_idx, start_marker, end_marker)
                  ELSE << >>
     IN IF data[name] = << >> \/ ~BlockFound(block) \/ clean = << >>
        THEN /\ pc' = after
             /\ IF name = "work_experience"
                THEN work_count' = 0 /\ project_count' = project_count
                ELSE project_count' = 0 /\ work_count' = work_count
             /\ UNCHANGED << doc, template_paras_clean, insert_idx, item_no, added_count >>
        ELSE /\ doc' = RemoveBetween(
                         StripMarkers(doc, 0, Len(doc) - 1, start_marker, end_marker),
                         block.end_idx - 1, block.start_idx)
             /\ template_paras_clean' = clean
             /\ insert_idx' = block.start_idx + 1
             /\ item_no' = 0
             /\ added_count' = 0
             /\ pc' = IF name = "work_experience" THEN "work_item" ELSE "project_item"
             /\ UNCHANGED << work_count, project_count >>
  /\ UNCHANGED << tables, exc, nextId, data, list_no, replaced_lists >>
  /\ UNCHANGED fillVars
  /\ UNCHANGED restVars
  /\ UNCHANGED headerVars
  /\ UNCHANGED saveVars

\* one pass of 'for work_item in work_experience' / 'for project_item in ...'
ExpandItem(name, at) ==
  /\ pc = at
  /\ item_no < Len(data[name])
  /\ LET S == CloneGroup(MarkerFrame(doc, nextId, insert_idx), name, template_paras_clean,
                         data[name][item_no + 1], 1)
     IN /\ doc' = S.doc
        /\ nextId' = S.nextId
        /\ exc' = S.exc
        /\ insert_idx' = S.ret
        /\ item_no' = item_no + 1
        /\ added_count' = IF S.exc = "none" THEN added_count + 1 ELSE added_count
        /\ pc' = IF S.exc = "none" THEN at ELSE "raised"
  /\ UNCHANGED << tables, data, template_paras_clean, list_no, replaced_lists,
                  work_count, project_count >>
  /\ UNCHANGED fillVars
  /\ UNCHANGED restVars
  /\ UNCHANGED headerVars
  /\ UNCHANGED saveVars

\* return added_count
ExpandReturn(name, at, after) ==
  /\ pc = at
  /\ item_no >= Len(data[name])
  /\ IF name = "work_experience"
     THEN work_count' = added_count /\ project_count' = project_count
     ELSE project_count' = added_count /\ work_count' = work_count
  /\ pc' = after
  /\ UNCHANGED << doc, tables, exc, nextId, data, template_paras_clean, insert_idx, item_no,
                  added_count, list_no, replaced_lists >>
  /\ UNCHANGED fillVars
  /\ UNCHANGED restVars
  /\ UNCHANGED headerVars
  /\ UNCHANGED saveVars

ProcessWorkExperienceStart == ExpandStart("work_experience", "project_experience")
ProcessWorkExperienceItem == ExpandItem("work_experience", "work_item")
ProcessWorkExperienceReturn == ExpandReturn("work_experience", "work_item", "project_experience")
ProcessProjectExperienceStart == ExpandStart("project_experience", "filled")
ProcessProjectExperienceItem == ExpandItem("project_experience", "project_item")
ProcessProjectExperienceReturn == ExpandReturn("project_experience", "project_item", "filled")

NextMarkers ==
  \/ ProcessSimpleFields
  \/ ProcessListField
  \/ ProcessWorkExperienceStart
  \/ ProcessWorkExperienceItem
  \/ ProcessWorkExperienceReturn
  \/ ProcessProjectExperienceStart
  \/ ProcessProjectExperienceItem
  \/ ProcessProjectExperienceReturn

SpecMarkers == InitMarkers /\ [][NextMarkers]_vars

----------------------------------------------------------------------------
(* Claims checked under SpecMarkers                                        *)

\* the marker block of the template, as the template was before the fill
TemplateBlock(name) == find_template_block(doc0, StartMarker(name), EndMarker(name))

\* the items of the collection a block is expanded from
Collection(name) ==
  IF name \in {"work_experience", "project_experience"} THEN data[name]
  ELSE data.lists[name].items

\* the tokens of the work_experience block: its markers and sub-placeholders
WorkMarkerTokens ==
  {"{{#work_experience}}", "{{/work_experience}}", "{{company}}", "{{position}}",
   "{{period}}", "{{responsibilities}}", "{{technologies}}"}

\* the text a template paragraph takes for one item of work_experience
ExpectedWorkText(template_text, work_item) ==
  StrReplace(
    StrReplace(
      StrReplace(
        StrReplace(
          StrReplace(template_text, "{{company}}", << work_item.company >>),
          "{{position}}", << work_item.position >>),
        "{{period}}", << work_item.period >>),
      "{{responsibilities}}", BulletLines(work_item.responsibilities)),
    "{{technologies}}", TechText(work_item.technologies))

\* between the two marker paragraphs stand K groups of N new paragraphs, group
\* g holding the template paragraphs filled with item g
ClonedGroupsInOrder ==
  LET b == TemplateBlock("work_experience")
      N == b.end_idx - b.start_idx - 1
      K == Len(data.work_experience)
      first == IndexOf(doc, Para(doc0, b.start_idx).id)
      last == IndexOf(doc, Para(doc0, b.end_idx).id)
  IN /\ first # None /\ last # None
     /\ last - first - 1 = K * N
     /\ \A g \in 1..K : \A n \in 1..N :
          LET p == Para(doc, first + (g - 1) * N + n)
          IN /\ p.id \notin Ids(doc0)
             /\ RunsText(p) = ExpectedWorkText(RunsText(Para(doc0, b.start_idx + n)),
                                               data.work_experience[g])

\* C2: a template with a {{#work_experience}} paragraph, N >= 1 template
\* paragraphs and a {{/work_experience}} paragraph, filled in marker mode with
\* K items, K in {0, 1, 5}, holds exactly K cloned groups of N paragraphs in
\* item order and no marker token of the block anywhere.
C2_MarkerRoundTrip ==
  (/\ pc = "filled"
   /\ BlockFound(TemplateBlock("work_experience"))
   /\ Len(data.work_experience) \in {0, 1, 5})
  => /\ ClonedGroupsInOrder
     /\ \A n \in 1..Len(doc) : \A m \in 1..Len(RunsText(doc[n])) :
          RunsText(doc[n])[m].k \notin WorkMarkerTokens

\* C3: when the collection of a marker block has no item, after the fill the
\* document holds neither the text of the two markers nor any template
\* paragraph that stood between them.
C3_EmptyCollectionCollapses ==
  pc = "filled" =>
    \A name \in MarkerBlocks :
       (BlockFound(TemplateBlock(name)) /\ Collection(name) = << >>) =>
          LET b == TemplateBlock(name)
          IN /\ \A n \in 1..Len(doc) :
                  /\ ~HasToken(RunsText(doc[n]), StartMarker(name))
                  /\ ~HasToken(RunsText(doc[n]), EndMarker(name))
             /\ \A i \in (b.start_idx + 1)..(b.end_idx - 1) :
                  Para(doc0, i).id \notin Ids(doc)

----------------------------------------------------------------------------
(* Header mode: finding the slot of a field                                *)
(* (find_empty_paragraph_after_header)                                     *)

OtherSectionKeywords ==
  {"opyt raboty", "proektnyj opyt", "obshchaya informaciya", "skrining", "obrazovanie",
   "navyki", "vakansiya", "work experience", "project experience", "general info",
   "screening"}

\* text in ['', '(dash)', '-', '(bullet)']
IsGlyph(text) == text = << >> \/ (Len(text) = 1 /\ text[1].k \in {"(dash)", "-", "(bullet)"})

\* text in ['', '(dash)', '-', '(bullet)', 'Место для указания вакансии']
IsSlotSentinel(text) == IsGlyph(text) \/ text = << Tok("Mesto dlya ukazaniya vakansii") >>

\* '{{' in text
HasBraces(text) == \E n \in 1..Len(text) : text[n].k = "{{"

\* what a function of the header mode reads and changes; target is the slot
\* found: [type, idx, pos, n] with idx a body index, pos a cell and n the
\* number of the paragraph in the cell
HeaderFrame(d, tbls, nid) ==
  [doc |-> d, tables |-> tbls, nextId |-> nid, exc |-> "none", ret |-> FALSE,
   target |-> [type |-> "none", idx |-> None, pos |-> <<0, 0, 0>>, n |-> 0]]

NoTarget == [type |-> "none", idx |-> None, pos |-> <<0, 0, 0>>, n |-> 0]
BodyTarget(i) == [type |-> "paragraph", idx |-> i, pos |-> <<0, 0, 0>>, n |-> 0]
CellTarget(pos, n) == [type |-> "table_cell", idx |-> None, pos |-> pos, n |-> n]

\* the loop over the body: for i in range(header_idx, min(header_idx + 15, len))
RECURSIVE SlotLoop(_, _, _, _)
SlotLoop(d, i, stop, header_keywords) ==
  IF i >= stop THEN None
  ELSE LET text == Text(d, i)
           is_header == ContainsAny(text, header_keywords)
       IN IF is_header /\ text # << >> THEN SlotLoop(d, i + 1, stop, header_keywords)
          ELSE IF IsSlotSentinel(text) THEN i
          ELSE IF HasBraces(text) THEN i
          ELSE IF ~is_header /\ ~ContainsAny(text, OtherSectionKeywords) THEN i
          ELSE SlotLoop(d, i + 1, stop, header_keywords)

\* the slot after a header found in the body
BodySlot(d, header_idx, header_keywords) ==
  LET i == SlotLoop(d, header_idx, MinOf(header_idx + HeaderMaxSearch, Len(d)),
                    header_keywords)
  IN IF i # None THEN BodyTarget(i)
     ELSE IF header_idx < Len(d) /\ ~ContainsAny(Text(d, header_idx), header_keywords)
     THEN BodyTarget(header_idx)
     ELSE NoTarget

\* cell.add_paragraph(""): a new empty paragraph at the end of the cell
AddCellParagraph(S, pos) ==
  [S EXCEPT !.tables[pos[1]][pos[2]][pos[3]] = Append(@, [id |-> S.nextId, text |-> << >>]),
            !.nextId = @ + 1,
            !.target = CellTarget(pos, Len(S.tables[pos[1]][pos[2]][pos[3]]) + 1)]

\* the first paragraph of a cell that is empty, a glyph or holds '{{'; else
\* the first paragraph; else a new paragraph
FirstSlotOfCell(S, pos) ==
  LET cell == CellAt(S.tables, pos)
      free == {n \in 1..Len(cell) : IsGlyph(cell[n].text) \/ HasBraces(cell[n].text)}
  IN IF free # {} THEN [S EXCEPT !.target = CellTarget(pos, Min(free))]
     ELSE IF cell # << >> THEN [S EXCEPT !.target = CellTarget(pos, 1)]
     ELSE AddCellParagraph(S, pos)

\* the search in the header's own cell: paragraphs holding a keyword are
\* skipped; without a free paragraph a new one is added
SlotInHeaderCell(S, pos, header_keywords) ==
  LET cell == CellAt(S.tables, pos)
      free == {n \in 1..Len(cell) :
                 /\ ~ContainsAny(cell[n].text, header_keywords)
                 /\ (IsGlyph(cell[n].text) \/ HasBraces(cell[n].text))}
  IN IF free # {} THEN [S EXCEPT !.target = CellTarget(pos, Min(free))]
     ELSE AddCellParagraph(S, pos)

\* the slot after a header found in the cell pos of a table
TableSlot(S, pos, header_keywords) ==
  LET table == S.tables[pos[1]]
      row == table[pos[2]]
      is_header == CellHasKeyword(CellAt(S.tables, pos), header_keywords)
      single_cell_row == Len(row) = 1
  IN IF is_header /\ single_cell_row /\ CellAt(S.tables, pos) # << >>
     THEN [S EXCEPT !.target = CellTarget(pos, 1)]
     ELSE IF is_header /\ ~single_cell_row /\ pos[3] + 1 <= Len(row)
     THEN FirstSlotOfCell(S, << pos[1], pos[2], pos[3] + 1 >>)
     ELSE IF is_header /\ ~single_cell_row /\ pos[2] + 1 <= Len(table)
             /\ table[pos[2] + 1] # << >>
     THEN FirstSlotOfCell(S, << pos[1], pos[2] + 1, 1 >>)
     ELSE SlotInHeaderCell(S, pos, header_keywords)

\* find_empty_paragraph_after_header(doc, header_keywords): the frame with
\* its target set (NoTarget for None)
find_empty_paragraph_after_header(S, header_keywords) ==
  LET header_info == find_section_by_header(S.doc, S.tables, header_keywords)
  IN IF header_info.type = "none" THEN [S EXCEPT !.target = NoTarget]
     ELSE IF header_info.type = "paragraph"
     THEN [S EXCEPT !.target = BodySlot(S.doc, header_info.idx, header_keywords)]
     ELSE TableSlot(S, header_info.pos, header_keywords)

----------------------------------------------------------------------------
(* Header mode: filling a field found by its header                        *)
(* (fill_by_header, fill_label_paragraph, fill_list_in_table_column,       *)
(* fill_list_by_header)                                                    *)

\* text in placeholder_texts
IsPlaceholderText(text) ==
  IsSlotSentinel(text) \/ text = << Tok("Rasskaz o sebe ot pervogo lica") >>

\* ' '.join(p.text.strip() for p in cell.paragraphs).strip()
CellText(cell) == Concat([n \in 1..Len(cell) |-> cell[n].text])

\* the text of the paragraph a target names
TargetText(S, tgt) ==
  IF tgt.type = "paragraph" THEN Text(S.doc, tgt.idx)
  ELSE CellAt(S.tables, tgt.pos)[tgt.n].text

\* para.clear(); add_run_with_default_font(para, value_str); return True
\* (replace_text_preserving_format(para, para.text.strip(), value_str) leaves
\* the same text)
WriteTarget(S, tgt, text) ==
  IF tgt.type = "paragraph"
  THEN [S EXCEPT !.doc = SetText(@, tgt.idx, text), !.ret = TRUE]
  ELSE [S EXCEPT !.tables[tgt.pos[1]][tgt.pos[2]][tgt.pos[3]][tgt.n].text = text,
                 !.ret = TRUE]

\* the header is the paragraph found, in a row of one cell: the value goes
\* to the cell below when that cell is free, else it replaces the header
FillUnderHeaderCell(S, value) ==
  LET pos == S.target.pos
      table == S.tables[pos[1]]
      below == << pos[1], pos[2] + 1, pos[3] >>
      free == /\ pos[2] + 1 <= Len(table)
              /\ pos[3] <= Len(table[pos[2] + 1])
              /\ LET next_text == CellText(CellAt(S.tables, below))
                 IN next_text = << >> \/ IsPlaceholderText(next_text) \/ HasBraces(next_text)
  IN IF free
     THEN IF CellAt(S.tables, below) # << >>
          THEN WriteTarget(S, CellTarget(below, 1), value)
          ELSE LET A == AddCellParagraph(S, below) IN WriteTarget(A, A.target, value)
     ELSE WriteTarget(S, S.target, value)

\* the header is the paragraph found, in a row of several cells: the value
\* goes to another free paragraph of the cell, else to a new one; same says
\* whether cell_para == para holds for the paragraph found
FillInHeaderCell(S, value, same) ==
  LET pos == S.target.pos
      cell == CellAt(S.tables, pos)
      free == {n \in 1..Len(cell) :
                 /\ ~(same /\ n = S.target.n)
                 /\ (IsPlaceholderText(cell[n].text) \/ HasBraces(cell[n].text))}
  IN IF free # {} THEN WriteTarget(S, CellTarget(pos, Min(free)), value)
     ELSE LET A == AddCellParagraph(S, pos) IN WriteTarget(A, A.target, value)

\* the header is the body paragraph found: the value goes to the paragraph
\* after it unless that is a header; same says whether p == para holds
FillAfterHeaderParagraph(S, header_keywords, value, same) ==
  LET para_idx == IF same THEN S.target.idx ELSE None
  IN IF para_idx # None /\ para_idx + 1 < Len(S.doc)
        /\ ~ContainsAny(Text(S.doc, para_idx + 1), header_keywords)
        /\ ~ContainsAny(Text(S.doc, para_idx + 1), OtherSectionKeywords)
     THEN WriteTarget(S, BodyTarget(para_idx + 1), value)
     ELSE [S EXCEPT !.ret = FALSE]

\* fill_by_header without its lines 1098-1102: unpacking the None that the
\* slot finder returned raises TypeError
fill_by_header_unchecked(S0, header_keywords, value, same) ==
  LET S == find_empty_paragraph_after_header(S0, header_keywords)
  IN IF S.target.type = "none" THEN Raise(S, "TypeError")
     ELSE IF ContainsAny(TargetText(S, S.target), header_keywords)
     THEN IF S.target.type = "table_cell"
          THEN IF Len(S.tables[S.target.pos[1]][S.target.pos[2]]) = 1
               THEN FillUnderHeaderCell(S, value)
               ELSE FillInHeaderCell(S, value, same)
          ELSE FillAfterHeaderParagraph(S, header_keywords, value, same)
     ELSE WriteTarget(S, S.target, value)

\* fill_by_header(doc, header_keywords, value, field_name).  A template of
\* the header mode holds no complete '{{name}}', so the paragraph found is
\* rewritten as a whole.
fill_by_header(S0, header_keywords, value, same) ==
  LET S == find_empty_paragraph_after_header(S0, header_keywords)
  IN IF S.target.type = "none" THEN [S EXCEPT !.ret = FALSE]
     ELSE IF ContainsAny(TargetText(S, S.target), header_keywords)
     THEN IF S.target.type = "table_cell"
          THEN IF Len(S.tables[S.target.pos[1]][S.target.pos[2]]) = 1
               THEN FillUnderHeaderCell(S, value)
               ELSE FillInHeaderCell(S, value, same)
          ELSE FillAfterHeaderParagraph(S, header_keywords, value, same)
     ELSE WriteTarget(S, S.target, value)

\* para.text.strip().upper().startswith(label)
StartsWithLabel(text, label) == text # << >> /\ text[1].k \in {label, label \o ":"}

RECURSIVE CellLabelTargets(_, _, _)
CellLabelTargets(S, label, cells) ==
  IF cells = {} THEN {}
  ELSE LET pos == CHOOSE q \in cells : \A o \in cells : o = q \/ PosBefore(q, o)
           hits == {n \in 1..Len(CellAt(S.tables, pos)) :
                      StartsWithLabel(CellAt(S.tables, pos)[n].text, label)}
       IN IF hits # {} THEN {CellTarget(pos, Min(hits))}
          ELSE CellLabelTargets(S, label, cells \ {pos})

\* fill_label_paragraph(doc, label, value, uppercase_value=True): the first
\* non-empty paragraph of the body, else of the table cells, that starts
\* with the label becomes label, ' ', value
fill_label_paragraph(S, label, value) ==
  LET hits == {n \in 0..(Len(S.doc) - 1) : StartsWithLabel(Text(S.doc, n), label)}
      incells == CellLabelTargets(S, label, CellPositions(S.tables))
      tgt == IF hits # {} THEN BodyTarget(Min(hits))
             ELSE IF incells # {} THEN CHOOSE t \in incells : TRUE
             ELSE NoTarget
  IN IF value = << >> \/ tgt.type = "none" THEN [S EXCEPT !.ret = FALSE]
     ELSE LET text == TargetText(S, tgt)
              label_text == IF text[1].k = label \o ":" THEN << text[1] >> ELSE text
          IN WriteTarget(S, tgt, label_text \o << Tok(" ") >> \o value)

\* format_list_item(item) of an item that is a string, with the bullet
\* prefix when use_bullets
ListItemText(item, use_bullets) == IF use_bullets THEN Bullet(item) ELSE << item >>

\* the paragraphs cell.add_paragraph() makes for the items after the first
NewItemParas(items, use_bullets, nid) ==
  [n \in 1..(Len(items) - 1) |->
     [id |-> nid + n - 1, text |-> ListItemText(items[n + 1], use_bullets)]]

\* the cell the list goes to in table t: below the column header, which is
\* in the row of the section header or in the row after it
ColumnCell(tbls, t, section_keywords, column_keywords) ==
  LET table == tbls[t]
      section_rows == {r \in 1..Len(table) :
                         \E c \in 1..Len(table[r]) : CellHasKeyword(table[r][c], section_keywords)}
      HeaderCols(hr) ==
        {c \in 1..Len(table[hr]) :
           /\ CellHasKeyword(table[hr][c], column_keywords)
           /\ hr + 1 <= Len(table)
           /\ c <= Len(table[hr + 1])}
  IN IF section_rows = {} THEN << >>
     ELSE LET r == Min(section_rows)
          IN IF HeaderCols(r) # {} THEN << t, r + 1, Min(HeaderCols(r)) >>
             ELSE IF r + 1 <= Len(table) /\ HeaderCols(r + 1) # {}
             THEN << t, r + 2, Min(HeaderCols(r + 1)) >>
             ELSE << >>

\* fill_list_in_table_column(doc, section_keywords, column_keywords, items,
\* field_name): in the first table that has the cell, its first paragraph
\* takes the first item and new paragraphs the others
fill_list_in_table_column(S, section_keywords, column_keywords, items) ==
  LET found == {t \in 1..Len(S.tables) :
                  ColumnCell(S.tables, t, section_keywords, column_keywords) # << >>}
  IN IF found = {} THEN [S EXCEPT !.ret = FALSE]
     ELSE LET pos == ColumnCell(S.tables, Min(found), section_keywords, column_keywords)
              cell == CellAt(S.tables, pos)
          IN IF cell = << >> THEN Raise(S, "IndexError")
             ELSE [S EXCEPT
                     !.tables[pos[1]][pos[2]][pos[3]] =
                        << [id |-> cell[1].id,
                            text |-> IF items = << >> THEN << >>
                                     ELSE ListItemText(items[1], TRUE)] >>
                        \o NewItemParas(items, TRUE, S.nextId),
                     !.nextId = @ + (IF items = << >> THEN 0 ELSE Len(items) - 1),
                     !.ret = TRUE]

\* the loop of fill_list_by_header over the items, from body paragraph
\* start_idx on: a free paragraph takes the item, a new paragraph is put
\* before an occupied one or after the last paragraph
RECURSIVE ListLoop(_, _, _, _, _)
ListLoop(S, start_idx, items, i, use_bullets) ==
  IF i >= Len(items) THEN [S EXCEPT !.ret = TRUE]
  ELSE LET insert_idx_ == start_idx + i
           text_value == ListItemText(items[i + 1], use_bullets)
           new_para == [id |-> S.nextId, text |-> text_value]
       IN IF insert_idx_ >= Len(S.doc)
          THEN ListLoop([S EXCEPT !.doc = InsertAfter(@, Len(S.doc) - 1, new_para),
                                  !.nextId = @ + 1],
                        start_idx, items, i + 1, use_bullets)
          ELSE IF IsGlyph(Text(S.doc, insert_idx_))
          THEN ListLoop([S EXCEPT !.doc = SetText(@, insert_idx_, text_value)],
                        start_idx, items, i + 1, use_bullets)
          ELSE ListLoop([S EXCEPT !.doc = InsertBefore(@, insert_idx_, new_para),
                                  !.nextId = @ + 1],
                        start_idx, items, i + 1, use_bullets)

\* the list in the cell of the paragraph found: the paragraphs after the
\* cell's first are removed, the paragraph found takes the first item (also
\* when it is one of the removed), new paragraphs take the others
FillListInCell(S, items, use_bullets) ==
  LET pos == S.target.pos
      cell == CellAt(S.tables, pos)
      first == IF S.target.n = 1
               THEN [id |-> cell[1].id,
                     text |-> IF items = << >> THEN << >>
                              ELSE ListItemText(items[1], use_bullets)]
               ELSE cell[1]
  IN [S EXCEPT !.tables[pos[1]][pos[2]][pos[3]] =
                  << first >> \o NewItemParas(items, use_bullets, S.nextId),
               !.nextId = @ + (IF items = << >> THEN 0 ELSE Len(items) - 1),
               !.ret = TRUE]

\* fill_list_by_header(doc, header_keywords, items, field_name, use_bullets);
\* same says whether para == first_para holds for the paragraph found
fill_list_by_header(S0, header_keywords, items, field_name, use_bullets, same) ==
  LET T == IF field_name \in {"hard_skills", "soft_skills"}
           THEN fill_list_in_table_column(S0, {"skrining", "screening"}, header_keywords, items)
           ELSE [S0 EXCEPT !.ret = FALSE]
      S == find_empty_paragraph_after_header(S0, header_keywords)
  IN IF T.ret \/ T.exc # "none" THEN T
     ELSE IF S.target.type = "none" THEN [S EXCEPT !.ret = FALSE]
     ELSE IF S.target.type = "paragraph"
     THEN IF same THEN ListLoop(S, S.target.idx, items, 0, use_bullets)
          ELSE [S EXCEPT !.ret = FALSE]
     ELSE FillListInCell(S, items, use_bullets)

----------------------------------------------------------------------------
(* Specification SpecSlot: one call of find_empty_paragraph_after_header   *)
(* on a template of the header mode                                        *)

MaxLayout == 5
MaxSlotRows == 2
MaxSlotCols == 2

\* the header keywords fill_by_headers_mode passes for pitch, education and status
PitchKeywords == {"pitch", "pitch (en)"}
EducationKeywords == {"obrazovanie", "education"}
StatusKeywords == {"status", "status (en)"}

\* what a body paragraph of a template holds: a section header, nothing, a
\* glyph, a plain text, a stray '{{'
LayoutKinds == {"PITCH", "OBRAZOVANIE", "", "(dash)", "Ivanov", "{{"}

\* what a table cell holds
CellKinds == {"STATUS", "", "Ivanov"}

\* the paragraphs of the cell (r, c) of a table of cols columns; extra gives
\* a header cell a second, empty paragraph
CellParas(kind, extra, first_id) ==
  IF kind = "STATUS" /\ extra
  THEN << [id |-> first_id, text |-> Txt(kind)], [id |-> first_id + 1, text |-> << >>] >>
  ELSE << [id |-> first_id, text |-> Txt(kind)] >>

\* a template with the body paragraph 'Ivanov' and one table
TableTemplate(rows, cols, kinds, extra) ==
  << [r \in 1..rows |->
        [c \in 1..cols |-> CellParas(kinds[r][c], extra, 2 * ((r - 1) * cols + c))]] >>

InitSlot ==
  /\ \/ /\ \E n \in 1..MaxLayout : \E texts \in [1..n -> LayoutKinds] : doc = WithIds(texts)
        /\ tables = << >>
        /\ nextId = Len(doc) + 1
     \/ /\ doc = WithIds(<< "Ivanov" >>)
        /\ \E rows \in 1..MaxSlotRows, cols \in 1..MaxSlotCols, extra \in BOOLEAN :
             \E kinds \in [1..rows -> [1..cols -> CellKinds]] :
                /\ tables = TableTemplate(rows, cols, kinds, extra)
                /\ nextId = 2 * (rows * cols + 1)
  /\ doc0 = doc
  /\ pc = "find_slot"
  /\ exc = "none"
  /\ FillIdle
  /\ MarkerIdle
  /\ HeaderIdle
  /\ RestIdle

\* target_info = find_empty_paragraph_after_header(doc, header_keywords)
FindSlot ==
  /\ pc = "find_slot"
  /\ \E header_keywords \in {PitchKeywords, EducationKeywords, StatusKeywords} :
       LET S == find_empty_paragraph_after_header(HeaderFrame(doc, tables, nextId),
                                                  header_keywords)
       IN /\ keywords' = header_keywords
          /\ target' = S.target
          /\ doc' = S.doc
          /\ tables' = S.tables
          /\ nextId' = S.nextId
  /\ pc' = "slot_found"
  /\ UNCHANGED << exc, replaced_count, calls >>
  /\ UNCHANGED fillVars
  /\ UNCHANGED saveVars
  /\ UNCHANGED markerVars
  /\ UNCHANGED restVars

NextSlot == FindSlot

SpecSlot == InitSlot /\ [][NextSlot]_vars

----------------------------------------------------------------------------
(* Specification SpecHeaders: the field steps of fill_by_headers_mode, one *)
(* call of a fill function per step, for a Record whose fields are         *)
(* vacancy, pitch, general_info.education and screening.hard_skills and    *)
(* whose work_experience is empty; same is the outcome of == between two   *)
(* python-docx proxies of one paragraph, which the library decides.  The   *)
(* project pass that follows the field steps is specification SpecFill.    *)

MaxBody == 2
MaxListItems == 2

VacancyKeywords == {"vakansiya", "vacancy", "poziciya", "mesto dlya ukazaniya"}
HardSkillsKeywords == {"hard skills", "hard_skills", "hard"}

\* pitch_keywords_list
PitchKeywordsList ==
  << PitchKeywords, {"rasskaz o sebe", "rasskaz", "o sebe"}, {"pitch:", "pitch: (en)"} >>

\* what a body paragraph of a template holds
BodyKinds == {"VAKANSIYA", "OPYT RABOTY:", "PITCH", "OBRAZOVANIE", "", "Ivanov"}

\* the tables of a template: none; the screening table with and without a
\* row for the values; the vacancy in a row of two cells; the vacancy in
\* rows of one cell
TableCells(rows) ==
  [r \in 1..Len(rows) |->
     [c \in 1..Len(rows[r]) |->
        << [id |-> MaxBody + (r - 1) * MaxCols + c + 1, text |-> Txt(rows[r][c])] >>]]

HeaderTables ==
  { << >>,
    << TableCells(<< << "SKRINING" >>, << "Hard skills", "Soft skills" >>, << "", "" >> >>) >>,
    << TableCells(<< << "SKRINING" >>, << "Hard skills", "Soft skills" >> >>) >>,
    << TableCells(<< << "VAKANSIYA", "" >> >>) >>,
    << TableCells(<< << "VAKANSIYA" >>, << "Ivanov" >> >>) >> }

\* json_data['vacancy'].upper()
upper(tok) == IF tok.k = "QA engineer" THEN [tok EXCEPT !.k = "QA ENGINEER"] ELSE tok

\* the values of the Record
VacancyValue == Tok("QA engineer")
PitchValue == Tok("Opytnyj inzhener")
ListItems(name, n) == [j \in 1..n |-> Data(name, 0, j)]

InitHeaders ==
  /\ \E n \in 1..MaxBody : \E texts \in [1..n -> BodyKinds] : doc = WithIds(texts)
  /\ tables \in HeaderTables
  /\ nextId = MaxBody + MaxRows * MaxCols + 2
  /\ doc0 = doc
  /\ pc = "vacancy"
  /\ exc = "none"
  /\ FillIdle
  /\ MarkerIdle
  /\ HeaderIdle
  /\ RestIdle

\* the call of a fill function has returned S: the step counts it and goes
\* on, to after_true when it returned True and to after_false otherwise
Called(S, field_name, header_keywords, after_true, after_false) ==
  /\ doc' = S.doc
  /\ tables' = S.tables
  /\ nextId' = S.nextId
  /\ exc' = S.exc
  /\ target' = S.target
  /\ keywords' = header_keywords
  /\ calls' = Append(calls, [field_name |-> field_name, keywords |-> header_keywords,
                             ret |-> S.ret])
  /\ replaced_count' = IF S.exc = "none" /\ S.ret THEN replaced_count + 1 ELSE replaced_count
  /\ pc' = IF S.exc # "none" THEN "raised" ELSE IF S.ret THEN after_true ELSE after_false

\* the Record has no value for the field: the step is left out
Skipped(after) ==
  /\ pc' = after
  /\ UNCHANGED << doc, tables, nextId, exc >>
  /\ UNCHANGED headerVars

\* if json_data.get('vacancy'): fill_by_header(doc, [...], vacancy_value, 'vacancy')
FillVacancy ==
  /\ pc = "vacancy"
  /\ \/ Skipped("experience_summary")
     \/ \E S \in {fill_by_header(HeaderFrame(doc, tables, nextId), VacancyKeywords,
                                   << upper(VacancyValue) >>, same) : same \in BOOLEAN} :
          Called(S, "vacancy", VacancyKeywords, "experience_summary", "experience_summary")
  /\ UNCHANGED fillVars
  /\ UNCHANGED saveVars
  /\ UNCHANGED markerVars
  /\ UNCHANGED restVars

\* fill_label_paragraph(doc, 'ОПЫТ РАБОТЫ', format_experience_summary([]), True)
FillExperienceSummary ==
  /\ pc = "experience_summary"
  /\ LET S == fill_label_paragraph(HeaderFrame(doc, tables, nextId), "OPYT RABOTY",
                                   << Tok("MENEE 1 MESYACA") >>)
     IN /\ doc' = S.doc
        /\ tables' = S.tables
        /\ replaced_count' = IF S.ret THEN replaced_count + 1 ELSE replaced_count
  /\ pc' = "pitch"
  /\ UNCHANGED << nextId, exc, keywords, target, calls >>
  /\ UNCHANGED fillVars
  /\ UNCHANGED saveVars
  /\ UNCHANGED markerVars
  /\ UNCHANGED restVars

\* if json_data.get('pitch'): for pitch_keywords in pitch_keywords_list:
\* if fill_by_header(doc, pitch_keywords, json_data['pitch'], 'pitch'): break
FillPitch ==
  /\ pc \in {"pitch", "pitch_2", "pitch_3"}
  /\ LET n == IF pc = "pitch" THEN 1 ELSE IF pc = "pitch_2" THEN 2 ELSE 3
         after_false == IF n = 1 THEN "pitch_2" ELSE IF n = 2 THEN "pitch_3" ELSE "education"
     IN \/ pc = "pitch" /\ Skipped("education")
        \/ \E S \in {fill_by_header(HeaderFrame(doc, tables, nextId), PitchKeywordsList[n],
                                      << PitchValue >>, same) : same \in BOOLEAN} :
             Called(S, "pitch", PitchKeywordsList[n], "education", after_false)
  /\ UNCHANGED fillVars
  /\ UNCHANGED saveVars
  /\ UNCHANGED markerVars
  /\ UNCHANGED restVars

\* if education: fill_list_by_header(doc, [...], education, 'education', use_bullets=False)
FillEducation ==
  /\ pc = "education"
  /\ \/ Skipped("hard_skills")
     \/ \E n \in 1..MaxListItems :
          \E S \in {fill_list_by_header(HeaderFrame(doc, tables, nextId), EducationKeywords,
                                        ListItems("education", n), "education", FALSE, same) :
                     same \in BOOLEAN} :
             Called(S, "education", EducationKeywords, "hard_skills", "hard_skills")
  /\ UNCHANGED fillVars
  /\ UNCHANGED saveVars
  /\ UNCHANGED markerVars
  /\ UNCHANGED restVars

\* if hard_skills: fill_list_by_header(doc, [...], hard_skills, 'hard_skills')
FillHardSkills ==
  /\ pc = "hard_skills"
  /\ \/ Skipped("fields_filled")
     \/ \E n \in 1..MaxListItems :
          \E S \in {fill_list_by_header(HeaderFrame(doc, tables, nextId), HardSkillsKeywords,
                                        ListItems("hard_skill", n), "hard_skills", TRUE, same) :
                     same \in BOOLEAN} :
             Called(S, "hard_skills", HardSkillsKeywords, "fields_filled", "fields_filled")
  /\ UNCHANGED fillVars
  /\ UNCHANGED saveVars
  /\ UNCHANGED markerVars
  /\ UNCHANGED restVars

NextHeaders ==
  \/ FillVacancy
  \/ FillExperienceSummary
  \/ FillPitch
  \/ FillEducation
  \/ FillHardSkills

SpecHeaders == InitHeaders /\ [][NextHeaders]_vars

----------------------------------------------------------------------------
(* Claims about the field steps, checked under SpecHeaders                 *)

\* no body paragraph and no paragraph of a table cell holds a keyword
HeaderAbsent(kws) ==
  /\ \A n \in 1..Len(doc) : ~ContainsAny(doc[n].text, kws)
  /\ \A pos \in CellPositions(tables) : ~CellHasKeyword(CellAt(tables, pos), kws)

\* the step fill_by_headers_mode takes after a call that returned False
StepAfter(step) ==
  CASE step = "vacancy" -> "experience_summary"
    [] step = "pitch" -> "pitch_2"
    [] step = "pitch_2" -> "pitch_3"
    [] step = "pitch_3" -> "education"
    [] step = "education" -> "hard_skills"
    [] step = "hard_skills" -> "fields_filled"
    [] OTHER -> "none"

\* C10: when no paragraph and no table cell of the document holds one of the
\* header keywords a call is given, fill_by_header and fill_list_by_header
\* return False, raise nothing and leave the body and the tables as they
\* were, and fill_by_headers_mode goes on with its next field.
C10_MissingHeaderSkipsField ==
  [][(Len(calls') = Len(calls) + 1 /\ HeaderAbsent(keywords')) =>
        /\ ~calls'[Len(calls')].ret
        /\ exc' = "none"
        /\ doc' = doc
        /\ tables' = tables
        /\ replaced_count' = replaced_count
        /\ pc' = StepAfter(pc)]_vars

\* the call numbered m found no header in the template and returned False
SkippedCall(m) ==
  /\ ~calls[m].ret
  /\ HeaderAbsent(calls[m].keywords)
  /\ \A n \in 1..Len(doc0) : ~ContainsAny(doc0[n].text, calls[m].keywords)

\* all field steps are done; fill_by_header (for the pitch) and
\* fill_list_by_header (for the education) found no header, and the later
\* call for the hard skills filled its cell
C10_LaterFieldFilled ==
  /\ pc = "fields_filled"
  /\ exc = "none"
  /\ \E m, n, h \in 1..Len(calls) :
       /\ m < n /\ n < h
       /\ calls[m].field_name = "pitch" /\ SkippedCall(m)
       /\ calls[n].field_name = "education" /\ SkippedCall(n)
       /\ calls[h].field_name = "hard_skills" /\ calls[h].ret
  /\ \E pos \in CellPositions(tables) :
       CellAt(tables, pos)[1].text = Bullet(Data("hard_skill", 0, 1))

----------------------------------------------------------------------------
(* Claims about the slot finder, checked under SpecSlot                    *)

\* the header the call looked for is a body paragraph of the template
HeaderInBody == \E n \in 1..Len(doc) : ContainsAny(doc[n].text, keywords)

\* the paragraph returned is the header of another section
ReturnsOtherHeader ==
  /\ target.type = "paragraph"
  /\ ContainsAny(Text(doc, target.idx), OtherSectionKeywords)
  /\ ~ContainsAny(Text(doc, target.idx), keywords)

\* the header, three empty paragraphs, the header of another section
ThreeEmptyLayout ==
  /\ Len(doc) = 5
  /\ keywords = PitchKeywords
  /\ Text(doc, 0) = Txt("PITCH")
  /\ \A n \in 1..3 : Text(doc, n) = << >>
  /\ Text(doc, 4) = Txt("OBRAZOVANIE")

\* C7: for a header found in a body paragraph the slot finder never returns
\* a paragraph that matches another section's header keywords, whatever the
\* layout; for a header followed by three empty paragraphs and another
\* section's header it returns the first of the empty paragraphs.
C7_NeverReturnsOtherHeader ==
  (pc = "slot_found" /\ HeaderInBody) =>
     /\ ~ReturnsOtherHeader
     /\ ThreeEmptyLayout => target = BodyTarget(1)

----------------------------------------------------------------------------
(* fill_document: the class of the template and the path it takes          *)
(*                                                                         *)
(* The template is the body paragraphs, the paragraphs of the cells of the *)
(* top-level tables, and the paragraphs of the tables nested in the first  *)
(* cell.  What the two paths do to the document is modelled by SpecMarkers *)
(* and SpecHeaders; here a path is the sequence of functions called.       *)

\* re.findall(r'\{\{([^}]+)\}\}', text) on a template string
FindAll(s) ==
  CASE s = "{{full_name}}" -> << "full_name" >>
    [] s = "{{full_name}} {{position}}" -> << "full_name", "position" >>
    [] OTHER -> << >>

\* '{{' in text and '}}' in text
OpensAndCloses(s) == s \in {"{{full_name}}", "{{full_name}} {{position}}", "}} {{"}

\* the names one paragraph adds to found_placeholders
ParagraphPlaceholders(p) ==
  IF Len(p.text) = 0 THEN << >>
  ELSE IF OpensAndCloses(p.text[1].k) THEN FindAll(p.text[1].k) ELSE << >>

RECURSIVE ParagraphsPlaceholders(_)
ParagraphsPlaceholders(paras) ==
  IF Len(paras) = 0 THEN << >>
  ELSE ParagraphPlaceholders(Head(paras)) \o ParagraphsPlaceholders(Tail(paras))

\* for table in doc.tables: for row in table.rows: for cell in row.cells:
\* for para in cell.paragraphs
RECURSIVE CellsPlaceholders(_, _)
CellsPlaceholders(tbls, positions) ==
  IF positions = {} THEN << >>
  ELSE LET pos == CHOOSE p \in positions : \A q \in positions : q = p \/ PosBefore(p, q)
       IN ParagraphsPlaceholders(CellAt(tbls, pos))
            \o CellsPlaceholders(tbls, positions \ {pos})

\* the scan of fill_document: the body paragraphs, then the cells of doc.tables
ScanPlaceholders(d, tbls) ==
  ParagraphsPlaceholders(d) \o CellsPlaceholders(tbls, CellPositions(tbls))

\* the functions of the marker path and of the header path, in call order
MarkerPath ==
  << "process_simple_fields", "process_list_field", "process_list_field",
     "process_list_field", "process_list_field", "process_work_experience",
     "process_project_experience" >>
HeaderPath == << "fill_by_headers_mode" >>

TemplateTexts == {"Ivanov", "{{full_name}}", "{{full_name}} {{position}}", "}} {{", "{{"}

MaxParagraphs == 2

\* a table of one row and one cell holding one paragraph
OneCellTable(text, id) == << << << << [id |-> id, text |-> Txt(text)] >> >> >> >>

InitDocument ==
  /\ \E n \in 0..MaxParagraphs : \E texts \in [1..n -> TemplateTexts] : doc = WithIds(texts)
  /\ \/ tables = << >> /\ cell_tables = << >>
     \/ \E text \in TemplateTexts :
          /\ tables = OneCellTable(text, MaxParagraphs + 1)
          /\ \/ cell_tables = << >>
             \/ \E nested \in TemplateTexts :
                  cell_tables = OneCellTable(nested, MaxParagraphs + 2)
  /\ nextId = MaxParagraphs + 3
  /\ doc0 = doc
  /\ pc = "scan"
  /\ exc = "none"
  /\ found_placeholders = << >>
  /\ has_placeholders = FALSE
  /\ called = << >>
  /\ FillIdle
  /\ MarkerIdle
  /\ HeaderIdle
  /\ LaterIdle
  /\ RunIdle
  /\ DateIdle
  /\ PipelineIdle

\* found_placeholders = [...]; has_placeholders = len(found_placeholders) > 0
Classify ==
  /\ pc = "scan"
  /\ found_placeholders' = ScanPlaceholders(doc, tables)
  /\ has_placeholders' = (Len(found_placeholders') > 0)
  /\ pc' = "classified"
  /\ UNCHANGED << doc, tables, cell_tables, nextId, exc, called >>
  /\ UNCHANGED << fillVars, saveVars, markerVars, headerVars, laterVars, runVars, dateVars, pipelineVars >>

\* if has_placeholders: process_simple_fields ... process_project_experience
RunMarkerPath ==
  /\ pc = "classified"
  /\ has_placeholders
  /\ called' = called \o MarkerPath
  /\ pc' = "filled"
  /\ UNCHANGED << doc, tables, cell_tables, nextId, exc, found_placeholders,
                  has_placeholders >>
  /\ UNCHANGED << fillVars, saveVars, markerVars, headerVars, laterVars, runVars, dateVars, pipelineVars >>

\* else: fill_by_headers_mode(doc, json_data, debug=True)
RunHeaderPath ==
  /\ pc = "classified"
  /\ ~has_placeholders
  /\ called' = called \o HeaderPath
  /\ pc' = "filled"
  /\ UNCHANGED << doc, tables, cell_tables, nextId, exc, found_placeholders,
                  has_placeholders >>
  /\ UNCHANGED << fillVars, saveVars, markerVars, headerVars, laterVars, runVars, dateVars, pipelineVars >>

NextDocument ==
  \/ Classify
  \/ RunMarkerPath
  \/ RunHeaderPath

SpecDocument == InitDocument /\ [][NextDocument]_vars

\* a {{name}} marker occurs in the text of one of the paragraphs
HasMarker(paras) ==
  \E n \in 1..Len(paras) : Len(paras[n].text) > 0 /\ Len(FindAll(paras[n].text[1].k)) > 0

TableHasMarker(tbls) == \E pos \in CellPositions(tbls) : HasMarker(CellAt(tbls, pos))

\* ... in a body paragraph, in a table cell, or in a table nested inside a cell
MarkerInTemplate == HasMarker(doc) \/ TableHasMarker(tables) \/ TableHasMarker(cell_tables)

\* C11: once fill_document has filled the document, it has called the
\* functions of the marker path if a {{name}} marker occurs in a body
\* paragraph, in a table cell or in a table nested inside a cell, and it has
\* called only fill_by_headers_mode otherwise; never functions of both.
C11_MarkerPathIffMarkerAnywhere ==
  pc = "filled" =>
     /\ MarkerInTemplate => called = MarkerPath
     /\ ~MarkerInTemplate => called = HeaderPath

----------------------------------------------------------------------------
(* replace_text_preserving_format and the formatting of the runs           *)
(*                                                                         *)
(* Here a paragraph is [id, runs, fonts]: fonts[n] is run.font of run n,   *)
(* [name, size, bold, italic, underline, rgb].  An attribute that is not   *)
(* set reads "None"; bold and italic are "True" or "False" when set,       *)
(* underline may also be the WD_UNDERLINE member "DOUBLE".                 *)

DEFAULT_FONT_NAME == "Calibri Light"
DEFAULT_FONT_SIZE_PT == "10.5"

\* the font of a run that paragraph.add_run has just made
NoFont ==
  [name |-> "None", size |-> "None", bold |-> "None", italic |-> "None",
   underline |-> "None", rgb |-> "None"]

\* apply_default_font(run)
apply_default_font(font) ==
  [font EXCEPT !.name = DEFAULT_FONT_NAME, !.size = DEFAULT_FONT_SIZE_PT]

\* the formatting read from the last run instead of the first
CapturedFromLastRun(p) == IF Len(p.fonts) > 0 THEN p.fonts[Len(p.fonts)] ELSE NoFont

\* font_name ... font_color_rgb: what is read from the first run, if any
CapturedFont(p) == IF Len(p.fonts) > 0 THEN p.fonts[1] ELSE NoFont

\* if font_name: ...; if font_bold is not None: ...; if font_color_rgb: ...
ApplyCaptured(font, captured) ==
  [name |-> IF captured.name # "None" THEN captured.name ELSE font.name,
   size |-> IF captured.size # "None" THEN captured.size ELSE font.size,
   bold |-> IF captured.bold # "None" THEN captured.bold ELSE font.bold,
   italic |-> IF captured.italic # "None" THEN captured.italic ELSE font.italic,
   underline |-> IF captured.underline # "None" THEN captured.underline ELSE font.underline,
   rgb |-> IF captured.rgb # "None" THEN captured.rgb ELSE font.rgb]

\* target_run = paragraph.runs[0], after paragraph.add_run("") when there is no run
TargetFont(p) == IF Len(p.fonts) > 0 THEN p.fonts[1] ELSE NoFont

\* replace_text_preserving_format on a paragraph with fonts: [ret, paragraph]
ReplacePreservingFormat(p, old_text, new_text, force_default_font) ==
  IF ~HasToken(RunsText(p), old_text) THEN [ret |-> "False", paragraph |-> p]
  ELSE LET applied == ApplyCaptured(TargetFont(p), CapturedFont(p))
           font == IF force_default_font /\ new_text # << >>
                   THEN apply_default_font(applied) ELSE applied
       IN [ret |-> "True",
           paragraph |-> [replace_text_preserving_format(p, old_text, new_text)
                            EXCEPT !.fonts = << font >>]]

MaxRuns == 2

\* the fonts the first run is drawn from: every attribute set or not
FirstRunFonts ==
  [name : {"None", "Arial"}, size : {"None", "12"}, bold : {"None", "True", "False"},
   italic : {"None", "True", "False"}, underline : {"None", "True", "DOUBLE"},
   rgb : {"None", "FF0000"}]

\* the fonts of the runs after the first
LaterRunFonts ==
  {NoFont,
   [name |-> "Times", size |-> "9", bold |-> "True", italic |-> "True",
    underline |-> "True", rgb |-> "0000FF"]}

RunTexts == {<< Tok("Rol: ") >>, << Tok("{{role}}") >>, << Tok("Rol: "), Tok("{{role}}") >>}

InitRuns ==
  /\ \E n \in 0..MaxRuns :
       \E texts \in [1..n -> RunTexts], first \in FirstRunFonts,
          later \in [2..n -> LaterRunFonts] :
         paragraph = [id |-> 1, runs |-> texts,
                      fonts |-> [m \in 1..n |-> IF m = 1 THEN first ELSE later[m]]]
  /\ paragraph0 = paragraph
  /\ \E new_text \in {<< >>, << Data("role", 1, 0) >>}, force_default_font \in BOOLEAN :
       replace_args = [old_text |-> "{{role}}", new_text |-> new_text,
                       force_default_font |-> force_default_font]
  /\ replace_ret = "None"
  /\ doc = << >>
  /\ tables = << >>
  /\ nextId = 2
  /\ doc0 = doc
  /\ pc = "replace"
  /\ exc = "none"
  /\ FillIdle
  /\ MarkerIdle
  /\ HeaderIdle
  /\ LaterIdle
  /\ DocumentIdle
  /\ DateIdle
  /\ PipelineIdle

\* replace_text_preserving_format(paragraph, old_text, new_text, force_default_font)
Replace ==
  /\ pc = "replace"
  /\ LET R == ReplacePreservingFormat(paragraph, replace_args.old_text,
                                      replace_args.new_text,
                                      replace_args.force_default_font)
     IN /\ paragraph' = R.paragraph
        /\ replace_ret' = R.ret
  /\ pc' = "replaced"
  /\ UNCHANGED << doc, tables, nextId, exc, paragraph0, replace_args >>
  /\ UNCHANGED << fillVars, saveVars, markerVars, headerVars, laterVars, documentVars, dateVars, pipelineVars >>

NextRuns == Replace

SpecRuns == InitRuns /\ [][NextRuns]_vars

\* C12: when replace_text_preserving_format has returned True on a paragraph
\* that had at least one run, the paragraph has exactly one run, its text is
\* the former text of the paragraph with old_text replaced by new_text, and
\* its bold, italic, underline and RGB colour are those of the former first
\* run, whether each was set or not.
C12_OneRunWithFirstRunFormat ==
  (pc = "replaced" /\ replace_ret = "True" /\ Len(paragraph0.runs) >= 1) =>
     /\ Len(paragraph.runs) = 1
     /\ Len(paragraph.fonts) = 1
     /\ paragraph.runs[1] = StrReplace(RunsText(paragraph0), replace_args.old_text,
                                       replace_args.new_text)
     /\ paragraph.fonts[1].bold = paragraph0.fonts[1].bold
     /\ paragraph.fonts[1].italic = paragraph0.fonts[1].italic
     /\ paragraph.fonts[1].underline = paragraph0.fonts[1].underline
     /\ paragraph.fonts[1].rgb = paragraph0.fonts[1].rgb

\* a paragraph of two runs, the marker in the second, the first run bold and
\* coloured with italic and underline not set, has been replaced
C12_TwoRunsMerged ==
  /\ pc = "replaced"
  /\ replace_ret = "True"
  /\ Len(paragraph0.runs) = 2
  /\ paragraph0.runs[1] = << Tok("Rol: ") >>
  /\ paragraph0.fonts[1].bold = "True"
  /\ paragraph0.fonts[1].italic = "None"
  /\ paragraph0.fonts[1].underline = "None"
  /\ paragraph0.fonts[1].rgb = "FF0000"
  /\ paragraph0.fonts[2].bold = "True"
  /\ paragraph0.fonts[2].italic = "True"
  /\ paragraph.runs = << << Tok("Rol: "), Data("role", 1, 0) >> >>
  /\ paragraph.fonts[1].name = DEFAULT_FONT_NAME

----------------------------------------------------------------------------
(* The strings of the period functions                                     *)
(*                                                                         *)
(* Here a string is a sequence of characters.  A Latin character, a digit  *)
(* or a punctuation mark is itself; a Cyrillic character is its            *)
(* transliteration followed by "_" ("ya_" is the small letter ya, "YA_"    *)
(* the capital one, "q_" the soft sign); "(en dash)" and "(em dash)" are   *)
(* U+2013 and U+2014.                                                      *)

IsDigit(c) == c \in {"0", "1", "2", "3", "4", "5", "6", "7", "8", "9"}

DigitValue(c) ==
  CASE c = "0" -> 0 [] c = "1" -> 1 [] c = "2" -> 2 [] c = "3" -> 3 [] c = "4" -> 4
    [] c = "5" -> 5 [] c = "6" -> 6 [] c = "7" -> 7 [] c = "8" -> 8 [] c = "9" -> 9

DigitChar(d) ==
  CASE d = 0 -> "0" [] d = 1 -> "1" [] d = 2 -> "2" [] d = 3 -> "3" [] d = 4 -> "4"
    [] d = 5 -> "5" [] d = 6 -> "6" [] d = 7 -> "7" [] d = 8 -> "8" [] d = 9 -> "9"

\* str(n) for n >= 0
RECURSIVE Digits(_)
Digits(n) == IF n < 10 THEN << DigitChar(n) >> ELSE Digits(n \div 10) \o << DigitChar(n % 10) >>

\* int(s) for a string of digits
RECURSIVE Number(_)
Number(s) ==
  IF s = << >> THEN 0 ELSE 10 * Number(SubSeq(s, 1, Len(s) - 1)) + DigitValue(s[Len(s)])

IsSpace(c) == c = " "

\* [–—\-]
IsDash(c) == c \in {"-", "(en dash)", "(em dash)"}

\* \w: the characters of the model that are no space and no punctuation mark
IsWord(c) == c \notin {" ", "-", "(en dash)", "(em dash)", "/", ",", "(", ")", ".", ":"}

\* c.lower()
Lower(c) ==
  CASE c = "YA_" -> "ya_"
    [] c = "F_" -> "f_"
    [] c = "M_" -> "m_"
    [] c = "A_" -> "a_"
    [] c = "I_" -> "i_"
    [] c = "S_" -> "s_"
    [] c = "O_" -> "o_"
    [] c = "N_" -> "n_"
    [] c = "D_" -> "d_"
    [] c = "E_" -> "e_"
    [] c = "K_" -> "k_"
    [] c = "P_" -> "p_"
    [] c = "T_" -> "t_"
    [] c = "J" -> "j"
    [] c = "F" -> "f"
    [] c = "M" -> "m"
    [] c = "A" -> "a"
    [] c = "S" -> "s"
    [] c = "O" -> "o"
    [] c = "N" -> "n"
    [] c = "D" -> "d"
    [] c = "P" -> "p"
    [] c = "C" -> "c"
    [] c = "B" -> "b"
    [] OTHER -> c

\* s.lower()
StrLower(s) == [n \in 1..Len(s) |-> Lower(s[n])]

\* s.strip()
RECURSIVE LStrip(_)
LStrip(s) == IF s # << >> /\ IsSpace(Head(s)) THEN LStrip(Tail(s)) ELSE s
RECURSIVE RStrip(_)
RStrip(s) ==
  IF s # << >> /\ IsSpace(s[Len(s)]) THEN RStrip(SubSeq(s, 1, Len(s) - 1)) ELSE s
Strip(s) == RStrip(LStrip(s))

\* sub in s
In(sub, s) == \E i \in 0..(Len(s) - Len(sub)) : SubSeq(s, i + 1, i + Len(sub)) = sub

\* s.find(sub) + 1: the place of the first occurrence, 0 if there is none
Find(sub, s) ==
  IF In(sub, s)
  THEN Min({i \in 1..(Len(s) - Len(sub) + 1) : SubSeq(s, i, i + Len(sub) - 1) = sub})
  ELSE 0

\* re.split(r'[–—\-]+', s)
RECURSIVE SkipDashes(_)
SkipDashes(s) == IF s # << >> /\ IsDash(Head(s)) THEN SkipDashes(Tail(s)) ELSE s
RECURSIVE SplitDashes(_)
SplitDashes(s) ==
  LET dashes == {i \in 1..Len(s) : IsDash(s[i])}
  IN IF dashes = {} THEN << s >>
     ELSE << SubSeq(s, 1, Min(dashes) - 1) >>
          \o SplitDashes(SkipDashes(SubSeq(s, Min(dashes), Len(s))))

----------------------------------------------------------------------------
(* Period parsing and experience aggregation                               *)

MONTHS_MAP ==
<<
   [name |-> << "ya_", "n_", "v_", "a_", "r_", "q_" >>, number |-> 1],
   [name |-> << "ya_", "n_", "v_", "a_", "r_", "ya_" >>, number |-> 1],
   [name |-> << "f_", "e_", "v_", "r_", "a_", "l_", "q_" >>, number |-> 2],
   [name |-> << "f_", "e_", "v_", "r_", "a_", "l_", "ya_" >>, number |-> 2],
   [name |-> << "m_", "a_", "r_", "t_" >>, number |-> 3],
   [name |-> << "m_", "a_", "r_", "t_", "a_" >>, number |-> 3],
   [name |-> << "a_", "p_", "r_", "e_", "l_", "q_" >>, number |-> 4],
   [name |-> << "a_", "p_", "r_", "e_", "l_", "ya_" >>, number |-> 4],
   [name |-> << "m_", "a_", "j_" >>, number |-> 5],
   [name |-> << "m_", "a_", "ya_" >>, number |-> 5],
   [name |-> << "i_", "yu_", "n_", "q_" >>, number |-> 6],
   [name |-> << "i_", "yu_", "n_", "ya_" >>, number |-> 6],
   [name |-> << "i_", "yu_", "l_", "q_" >>, number |-> 7],
   [name |-> << "i_", "yu_", "l_", "ya_" >>, number |-> 7],
   [name |-> << "a_", "v_", "g_", "u_", "s_", "t_" >>, number |-> 8],
   [name |-> << "a_", "v_", "g_", "u_", "s_", "t_", "a_" >>, number |-> 8],
   [name |-> << "s_", "e_", "n_", "t_", "ya_", "b_", "r_", "q_" >>, number |-> 9],
   [name |-> << "s_", "e_", "n_", "t_", "ya_", "b_", "r_", "ya_" >>, number |-> 9],
   [name |-> << "o_", "k_", "t_", "ya_", "b_", "r_", "q_" >>, number |-> 10],
   [name |-> << "o_", "k_", "t_", "ya_", "b_", "r_", "ya_" >>, number |-> 10],
   [name |-> << "n_", "o_", "ya_", "b_", "r_", "q_" >>, number |-> 11],
   [name |-> << "n_", "o_", "ya_", "b_", "r_", "ya_" >>, number |-> 11],
   [name |-> << "d_", "e_", "k_", "a_", "b_", "r_", "q_" >>, number |-> 12],
   [name |-> << "d_", "e_", "k_", "a_", "b_", "r_", "ya_" >>, number |-> 12],
   [name |-> << "j", "a", "n", "u", "a", "r", "y" >>, number |-> 1],
   [name |-> << "f", "e", "b", "r", "u", "a", "r", "y" >>, number |-> 2],
   [name |-> << "m", "a", "r", "c", "h" >>, number |-> 3],
   [name |-> << "a", "p", "r", "i", "l" >>, number |-> 4],
   [name |-> << "m", "a", "y" >>, number |-> 5],
   [name |-> << "j", "u", "n", "e" >>, number |-> 6],
   [name |-> << "j", "u", "l", "y" >>, number |-> 7],
   [name |-> << "a", "u", "g", "u", "s", "t" >>, number |-> 8],
   [name |-> << "s", "e", "p", "t", "e", "m", "b", "e", "r" >>, number |-> 9],
   [name |-> << "o", "c", "t", "o", "b", "e", "r" >>, number |-> 10],
   [name |-> << "n", "o", "v", "e", "m", "b", "e", "r" >>, number |-> 11],
   [name |-> << "d", "e", "c", "e", "m", "b", "e", "r" >>, number |-> 12]
>>

CURRENT_PERIOD_TERMS ==
<<
   << "n_", "a_", "s_", "t_", "o_", "ya_", "shch_", "e_", "e_", " ", "v_", "r_", "e_", "m_", "ya_" >>,
   << "p_", "o_", " ", "n_", "a_", "s_", "t_", "o_", "ya_", "shch_", "e_", "e_", " ", "v_", "r_", "e_", "m_", "ya_" >>,
   << "p_", "o_", " ", "n_", "a_", "s_", "t_", ".", " ", "v_", "r_", "e_", "m_", "ya_" >>,
   << "n_", ".", "v_", "." >>,
   << "p", "r", "e", "s", "e", "n", "t" >>,
   << "c", "u", "r", "r", "e", "n", "t" >>
>>

\* a date is [year, month]: every date of these functions is the first of
\* its month, or it is date.today(), of which only year and month are read
NoDate == [year |-> None, month |-> None]

\* the pattern 20\d{2}: the years of the last century are not found
YearMatchThisCentury(value) ==
  LET hits == {i \in 1..(Len(value) - 3) :
                 /\ SubSeq(value, i, i + 1) = << "2", "0" >>
                 /\ IsDigit(value[i + 2])
                 /\ IsDigit(value[i + 3])}
  IN IF hits = {} THEN 0 ELSE Min(hits)

\* re.search(r'(19|20)\d{2}', value): the place of the match, 0 if none
YearMatch(value) ==
  LET hits == {i \in 1..(Len(value) - 3) :
                 /\ SubSeq(value, i, i + 1) \in {<< "1", "9" >>, << "2", "0" >>}
                 /\ IsDigit(value[i + 2])
                 /\ IsDigit(value[i + 3])}
  IN IF hits = {} THEN 0 ELSE Min(hits)

\* _parse_single_date(text_value), today the value of date.today()
parse_single_date(text_value, now) ==
  LET value == StrLower(Strip(text_value))
  IN IF value = << >> THEN NoDate
     ELSE IF \E t \in 1..Len(CURRENT_PERIOD_TERMS) : In(CURRENT_PERIOD_TERMS[t], value)
     THEN [year |-> now.year, month |-> now.month]
     ELSE IF YearMatch(value) = 0 THEN NoDate
     ELSE LET names == {m \in 1..Len(MONTHS_MAP) : In(MONTHS_MAP[m].name, value)}
          IN [year |-> Number(SubSeq(value, YearMatch(value), YearMatch(value) + 3)),
              month |-> IF names = {} THEN 1 ELSE MONTHS_MAP[Min(names)].number]

\* parse_period_range(period_str): [start_date, end_date]
parse_period_range(period_str, now) ==
  IF period_str = << >> THEN [start_date |-> NoDate, end_date |-> NoDate]
  ELSE LET parts == SplitDashes(period_str)
           start_part == Strip(parts[1])
           end_part == IF Len(parts) > 1 THEN Strip(parts[2]) ELSE << >>
           end_date == IF end_part # << >> THEN parse_single_date(end_part, now) ELSE NoDate
       IN [start_date |-> parse_single_date(start_part, now),
           end_date |-> IF end_date = NoDate THEN now ELSE end_date]

\* the sum without the test months < 0: an interval that ends before it
\* starts is subtracted
RECURSIVE calculate_experience_months_unclamped(_, _)
calculate_experience_months_unclamped(items, now) ==
  IF items = << >> THEN 0
  ELSE LET range == parse_period_range(Head(items).period, now)
           months == (range.end_date.year - range.start_date.year) * 12
                     + (range.end_date.month - range.start_date.month)
       IN (IF range.start_date = NoDate THEN 0 ELSE months)
          + calculate_experience_months_unclamped(Tail(items), now)

\* calculate_experience_months(work_experience)
RECURSIVE calculate_experience_months(_, _)
calculate_experience_months(items, now) ==
  IF items = << >> THEN 0
  ELSE LET range == parse_period_range(Head(items).period, now)
           end_date == IF range.end_date = NoDate THEN now ELSE range.end_date
           months == (end_date.year - range.start_date.year) * 12
                     + (end_date.month - range.start_date.month)
       IN (IF range.start_date = NoDate \/ months < 0 THEN 0 ELSE months)
          + calculate_experience_months(Tail(items), now)

Word_GOD == << "G_", "O_", "D_" >>
Word_GODA == << "G_", "O_", "D_", "A_" >>
Word_LET == << "L_", "E_", "T_" >>
Word_MESYAC == << "M_", "E_", "S_", "YA_", "C_" >>
Word_MESYACA == << "M_", "E_", "S_", "YA_", "C_", "A_" >>
Word_MESYACEV == << "M_", "E_", "S_", "YA_", "C_", "E_", "V_" >>
MENEE_1_MESYACA ==
  << "M_", "E_", "N_", "E_", "E_", " ", "1", " ", "M_", "E_", "S_", "YA_", "C_", "A_" >>

\* the choice by the last digit alone: 11 to 14 are not set apart
UnitWordByLastDigit(n, one, few, many) ==
  IF n % 10 = 1 THEN one
  ELSE IF 2 <= n % 10 /\ n % 10 <= 4 THEN few
  ELSE many

\* the three-way choice of the unit word
UnitWord(n, one, few, many) ==
  IF n % 10 = 1 /\ n % 100 # 11 THEN one
  ELSE IF 2 <= n % 10 /\ n % 10 <= 4 /\ ~(12 <= n % 100 /\ n % 100 <= 14) THEN few
  ELSE many

\* the rendering of format_experience_summary once total_months is known
RenderedSummary(total_months) ==
  LET years == total_months \div 12
      months == total_months % 12
      year_part == IF years # 0
                   THEN << Digits(years) \o << " " >>
                           \o UnitWord(years, Word_GOD, Word_GODA, Word_LET) >>
                   ELSE << >>
      month_part == IF months # 0
                    THEN << Digits(months) \o << " " >>
                            \o UnitWord(months, Word_MESYAC, Word_MESYACA, Word_MESYACEV) >>
                    ELSE << >>
      parts == year_part \o month_part
  IN IF total_months <= 0 THEN MENEE_1_MESYACA
     ELSE IF Len(parts) = 2 THEN parts[1] \o << " " >> \o parts[2]
     ELSE parts[1]

\* format_experience_summary(work_experience)
format_experience_summary(items, now) ==
  RenderedSummary(calculate_experience_months(items, now))

----------------------------------------------------------------------------
(* Sorting the projects by the start of their period                       *)

\* the dictionary months of parse_date_from_period
SortMonths ==
<<
   [name |-> << "ya_", "n_", "v_", "a_", "r_", "q_" >>, number |-> 1],
   [name |-> << "f_", "e_", "v_", "r_", "a_", "l_", "q_" >>, number |-> 2],
   [name |-> << "m_", "a_", "r_", "t_" >>, number |-> 3],
   [name |-> << "a_", "p_", "r_", "e_", "l_", "q_" >>, number |-> 4],
   [name |-> << "m_", "a_", "j_" >>, number |-> 5],
   [name |-> << "i_", "yu_", "n_", "q_" >>, number |-> 6],
   [name |-> << "i_", "yu_", "l_", "q_" >>, number |-> 7],
   [name |-> << "a_", "v_", "g_", "u_", "s_", "t_" >>, number |-> 8],
   [name |-> << "s_", "e_", "n_", "t_", "ya_", "b_", "r_", "q_" >>, number |-> 9],
   [name |-> << "o_", "k_", "t_", "ya_", "b_", "r_", "q_" >>, number |-> 10],
   [name |-> << "n_", "o_", "ya_", "b_", "r_", "q_" >>, number |-> 11],
   [name |-> << "d_", "e_", "k_", "a_", "b_", "r_", "q_" >>, number |-> 12],
   [name |-> << "j", "a", "n", "u", "a", "r", "y" >>, number |-> 1],
   [name |-> << "f", "e", "b", "r", "u", "a", "r", "y" >>, number |-> 2],
   [name |-> << "m", "a", "r", "c", "h" >>, number |-> 3],
   [name |-> << "a", "p", "r", "i", "l" >>, number |-> 4],
   [name |-> << "m", "a", "y" >>, number |-> 5],
   [name |-> << "j", "u", "n", "e" >>, number |-> 6],
   [name |-> << "j", "u", "l", "y" >>, number |-> 7],
   [name |-> << "a", "u", "g", "u", "s", "t" >>, number |-> 8],
   [name |-> << "s", "e", "p", "t", "e", "m", "b", "e", "r" >>, number |-> 9],
   [name |-> << "o", "c", "t", "o", "b", "e", "r" >>, number |-> 10],
   [name |-> << "n", "o", "v", "e", "m", "b", "e", "r" >>, number |-> 11],
   [name |-> << "d", "e", "c", "e", "m", "b", "e", "r" >>, number |-> 12]
>>

\* months.get(month_name, 0)
SortMonthNumber(month_name) ==
  LET hits == {m \in 1..Len(SortMonths) : SortMonths[m].name = month_name}
  IN IF hits = {} THEN 0 ELSE SortMonths[Min(hits)].number

\* re.search(r'\d{4}', s): the place of the match, 0 if none
FourDigits(s) ==
  LET hits == {i \in 1..(Len(s) - 3) : \A d \in 0..3 : IsDigit(s[i + d])}
  IN IF hits = {} THEN 0 ELSE Min(hits)

\* the number of spaces of s from place i on
RECURSIVE SpacesFrom(_, _)
SpacesFrom(s, i) == IF i <= Len(s) /\ IsSpace(s[i]) THEN 1 + SpacesFrom(s, i + 1) ELSE 0

\* re.search(r'(\w+)\s+(\d{4})', s): [start, end, year] of the leftmost match,
\* start..end the word and year the place of the four digits; start = 0 if
\* there is no match.  A match starts at the first character of a word and
\* the word runs to the space before the digits.
WordYearMatch(s) ==
  LET ends == {e \in 1..Len(s) :
                 /\ IsWord(s[e])
                 /\ SpacesFrom(s, e + 1) > 0
                 /\ e + SpacesFrom(s, e + 1) + 4 <= Len(s)
                 /\ \A d \in 1..4 : IsDigit(s[e + SpacesFrom(s, e + 1) + d])}
  IN IF ends = {} THEN [start |-> 0, end |-> 0, year |-> 0]
     ELSE LET e == Min(ends)
              begins == {a \in 1..e : \A n \in a..e : IsWord(s[n])}
          IN [start |-> Min(begins), end |-> e, year |-> e + SpacesFrom(s, e + 1) + 1]

\* parse_date_from_period(period_str): <<year, month>>
parse_date_from_period(period_str) ==
  LET period_lower == StrLower(period_str)
      match == WordYearMatch(period_lower)
      month == IF match.start = 0 THEN 0
               ELSE SortMonthNumber(SubSeq(period_lower, match.start, match.end))
      year_match == FourDigits(period_lower)
  IN IF period_str = << >> THEN << 0, 0 >>
     ELSE IF month > 0
     THEN << Number(SubSeq(period_lower, match.year, match.year + 3)), month >>
     ELSE IF year_match # 0
     THEN << Number(SubSeq(period_lower, year_match, year_match + 3)), 0 >>
     ELSE << 0, 0 >>

\* s.split(sep)[-1]: what follows the last occurrence of sep
RECURSIVE AfterLast(_, _)
AfterLast(sep, s) ==
  IF ~In(sep, s) THEN s
  ELSE AfterLast(sep, SubSeq(s, Find(sep, s) + Len(sep), Len(s)))

\* [m.group(1) for m in re.finditer(r'\(([^)]+)\)', s)]
RECURSIVE Parenthesized(_)
Parenthesized(s) ==
  LET opens == {i \in 1..Len(s) :
                  /\ s[i] = "("
                  /\ i + 1 <= Len(s)
                  /\ s[i + 1] # ")"
                  /\ \E j \in (i + 2)..Len(s) : s[j] = ")"}
  IN IF opens = {} THEN << >>
     ELSE LET i == Min(opens)
              j == Min({n \in (i + 2)..Len(s) : s[n] = ")"})
          IN << SubSeq(s, i + 1, j - 1) >> \o Parenthesized(SubSeq(s, j + 1, Len(s)))

\* the period that get_sort_key takes from the field company
CompanyPeriod(company) ==
  IF In(<< " ", "/", " " >>, company)
  THEN SubSeq(company, Find(<< " ", "/", " " >>, company) + 3, Len(company))
  ELSE IF In(<< ",", " " >>, company)
  THEN IF FourDigits(AfterLast(<< ",", " " >>, company)) # 0
       THEN AfterLast(<< ",", " " >>, company) ELSE << >>
  ELSE IF In(<< "(" >>, company) /\ In(<< ")" >>, company)
  THEN LET matches == Parenthesized(company)
       IN IF matches = << >> THEN << >>
          ELSE IF FourDigits(matches[Len(matches)]) = 0 /\ Len(matches) > 1
          THEN matches[Len(matches) - 1]
          ELSE matches[Len(matches)]
  ELSE << >>

\* get_sort_key(project)
get_sort_key(project) ==
  LET found == CompanyPeriod(project.company)
      period == IF found = << >> THEN project.period ELSE found
      ym == parse_date_from_period(period)
  IN << IF ym[1] > 0 THEN -ym[1] ELSE 9999, IF ym[2] > 0 THEN -ym[2] ELSE 0 >>

\* the order of the key tuples
KeyLess(a, b) == a[1] < b[1] \/ (a[1] = b[1] /\ a[2] < b[2])

\* sorted(projects, key=get_sort_key) on the pairs <<key, entry>>: each pair
\* goes behind the pairs placed before it whose key is not greater (the sort
\* is stable)
RECURSIVE SortedByKey(_)
SortedByKey(pairs) ==
  IF pairs = << >> THEN << >>
  ELSE LET n == Len(pairs)
           last == pairs[n]
           before == SortedByKey(SubSeq(pairs, 1, n - 1))
           keep == {i \in 0..Len(before) : \A m \in 1..i : ~KeyLess(last[1], before[m][1])}
           at == CHOOSE i \in keep : \A m \in keep : m <= i
       IN SubSeq(before, 1, at) \o << last >> \o SubSeq(before, at + 1, Len(before))

\* sort_projects_by_date(projects)
sort_projects_by_date(items) ==
  LET pairs == SortedByKey([n \in 1..Len(items) |-> << get_sort_key(items[n]), items[n] >>])
  IN [n \in 1..Len(pairs) |-> pairs[n][2]]

----------------------------------------------------------------------------
(* The period functions applied to bounded inputs                          *)
(*                                                                         *)
(* An entry of work_experience is [period, start, end]: period is the      *)
(* string the functions read; start and end are the <<year, month>> it was *)
(* written from (NoDate for a start that is no date, and for an end that   *)
(* is missing, ongoing or no date), which the functions never read.        *)

\* c.upper() for the first letter of a month name
Upper(c) ==
  CASE c = "ya_" -> "YA_"
    [] c = "f_" -> "F_"
    [] c = "m_" -> "M_"
    [] c = "a_" -> "A_"
    [] c = "i_" -> "I_"
    [] c = "s_" -> "S_"
    [] c = "o_" -> "O_"
    [] c = "n_" -> "N_"
    [] c = "d_" -> "D_"
    [] c = "j" -> "J"
    [] c = "f" -> "F"
    [] c = "m" -> "M"
    [] c = "a" -> "A"
    [] c = "s" -> "S"
    [] c = "o" -> "O"
    [] c = "n" -> "N"
    [] c = "d" -> "D"
    [] OTHER -> c

\* s.capitalize() for a month name
Capitalize(s) == << Upper(Head(s)) >> \o Tail(s)

\* the years the pattern (19|20)\d{2} of _parse_single_date accepts
YearMin == 1900
YearMax == 2099

\* '<month name> <year>' with the name of entry m of MONTHS_MAP
MonthYear(m, year, capital) ==
  (IF capital THEN Capitalize(MONTHS_MAP[m].name) ELSE MONTHS_MAP[m].name)
  \o << " " >> \o Digits(year)

Junk == << "s_", "k_", "o_", "r_", "o_" >>

\* the starts and the ends of the periods of the lists
StartKinds ==
  {[kind |-> "junk", m |-> 0, year |-> 0],
   [kind |-> "date", m |-> 2, year |-> 2019],
   [kind |-> "date", m |-> 29, year |-> 2021]}
EndKinds ==
  {[kind |-> "missing", m |-> 0, year |-> 0],
   [kind |-> "ongoing", m |-> 0, year |-> 0],
   [kind |-> "junk", m |-> 0, year |-> 0],
   [kind |-> "date", m |-> 1, year |-> 2020],
   [kind |-> "date", m |-> 36, year |-> 2021]}

DateOf(k) ==
  IF k.kind = "date" THEN [year |-> k.year, month |-> MONTHS_MAP[k.m].number] ELSE NoDate

\* the entry whose period is written start, dash, end
WorkEntry(s, e, dash) ==
  [period |->
     (IF s.kind = "date" THEN MonthYear(s.m, s.year, TRUE) ELSE Junk)
     \o (CASE e.kind = "missing" -> << >>
           [] e.kind = "ongoing" -> << " ", dash, " " >> \o CURRENT_PERIOD_TERMS[1]
           [] e.kind = "junk" -> << " ", dash, " " >> \o Junk
           [] e.kind = "date" -> << " ", dash, " " >> \o MonthYear(e.m, e.year, TRUE)),
   start |-> DateOf(s),
   end |-> DateOf(e)]

\* an entry without a period
NoPeriodEntry == [period |-> << >>, start |-> NoDate, end |-> NoDate]

WorkEntries ==
  {WorkEntry(s, e, "(em dash)") : s \in StartKinds, e \in EndKinds} \cup {NoPeriodEntry}

MaxEntries == 2

\* An entry of projects is [company, period, start, no]: company and period
\* are what get_sort_key reads; start is the <<year, month>> the period was
\* written from, <<0, 0>> for one that is no date; no is the place of the
\* entry in the input.  A kind is [how, m, year]: how the period is given
\* (after ' / ', after ', ', in parentheses, in the field period), and the
\* entry of MONTHS_MAP and the year of its start (m = 0: no date).
ProjectKinds ==
  {[how |-> "slash", m |-> 1, year |-> 2022],
   [how |-> "comma", m |-> 1, year |-> 2022],
   [how |-> "parentheses", m |-> 1, year |-> 2022],
   [how |-> "field", m |-> 1, year |-> 2022],
   [how |-> "slash", m |-> 2, year |-> 2021],
   [how |-> "slash", m |-> 24, year |-> 2021],
   [how |-> "slash", m |-> 29, year |-> 2021],
   [how |-> "slash", m |-> 0, year |-> 0],
   [how |-> "field", m |-> 0, year |-> 0]}

CompanyNames == << << "A" >>, << "B" >>, << "C" >>, << "D" >>, << "E" >> >>

ProjectEntry(i, kind) ==
  LET period == IF kind.m = 0 THEN Junk
                ELSE MonthYear(kind.m, kind.year, TRUE)
                     \o << " ", "(em dash)", " " >> \o CURRENT_PERIOD_TERMS[1]
  IN [company |->
        CompanyNames[i]
        \o (CASE kind.how = "slash" -> << " ", "/", " " >> \o period
               [] kind.how = "comma" -> << ",", " " >> \o period
               [] kind.how = "parentheses" -> << " ", "(" >> \o period \o << ")" >>
               [] kind.how = "field" -> << >>),
      period |-> IF kind.how = "field" THEN period ELSE << >>,
      start |-> IF kind.m = 0 THEN << 0, 0 >> ELSE << kind.year, MONTHS_MAP[kind.m].number >>,
      no |-> i]

MaxProjects == 3

Todays == {[year |-> 2026, month |-> 11], [year |-> 2021, month |-> 1]}

InitDates ==
  /\ \/ /\ today \in Todays
        /\ \E n \in 0..MaxEntries : work_experience \in [1..n -> WorkEntries]
        /\ projects = << >>
        /\ pc = "dates"
     \/ /\ today \in Todays
        /\ \E m \in 1..Len(MONTHS_MAP), year \in YearMin..YearMax :
             work_experience =
               << [period |-> MonthYear(m, year, FALSE),
                   start |-> [year |-> year, month |-> MONTHS_MAP[m].number],
                   end |-> NoDate] >>
        /\ projects = << >>
        /\ pc = "dates"
     \/ /\ today = [year |-> 2026, month |-> 11]
        /\ work_experience = << >>
        /\ \E n \in 0..MaxProjects : \E kinds \in [1..n -> ProjectKinds] :
             projects = [i \in 1..n |-> ProjectEntry(i, kinds[i])]
        /\ pc = "sort"
  /\ period_range = << >>
  /\ experience_months = None
  /\ experience_summary = << >>
  /\ sorted_projects = << >>
  /\ exc = "none"
  /\ doc = << >>
  /\ tables = << >>
  /\ nextId = 1
  /\ doc0 = doc
  /\ FillIdle
  /\ MarkerIdle
  /\ HeaderIdle
  /\ LaterIdle
  /\ DocumentIdle
  /\ RunIdle
  /\ PipelineIdle

\* start_date, end_date = parse_period_range(period) for the first entry
ParsePeriodRange ==
  /\ pc = "dates"
  /\ Len(work_experience) >= 1
  /\ period_range' = parse_period_range(work_experience[1].period, today)
  /\ pc' = "parsed"
  /\ UNCHANGED << doc, tables, nextId, exc, today, work_experience, projects,
                  experience_months, experience_summary, sorted_projects >>
  /\ UNCHANGED << fillVars, saveVars, markerVars, headerVars, laterVars, documentVars, runVars, pipelineVars >>

\* calculate_experience_months(work_experience)
CalculateExperienceMonths ==
  /\ pc = "dates"
  /\ experience_months' = calculate_experience_months(work_experience, today)
  /\ pc' = "calculated"
  /\ UNCHANGED << doc, tables, nextId, exc, today, work_experience, projects,
                  period_range, experience_summary, sorted_projects >>
  /\ UNCHANGED << fillVars, saveVars, markerVars, headerVars, laterVars, documentVars, runVars, pipelineVars >>

\* format_experience_summary(work_experience)
FormatExperienceSummary ==
  /\ pc = "dates"
  /\ experience_summary' = format_experience_summary(work_experience, today)
  /\ pc' = "formatted"
  /\ UNCHANGED << doc, tables, nextId, exc, today, work_experience, projects,
                  period_range, experience_months, sorted_projects >>
  /\ UNCHANGED << fillVars, saveVars, markerVars, headerVars, laterVars, documentVars, runVars, pipelineVars >>

\* sort_projects_by_date(projects)
SortProjectsByDate ==
  /\ pc = "sort"
  /\ sorted_projects' = sort_projects_by_date(projects)
  /\ pc' = "sorted"
  /\ UNCHANGED << doc, tables, nextId, exc, today, work_experience, projects,
                  period_range, experience_months, experience_summary >>
  /\ UNCHANGED << fillVars, saveVars, markerVars, headerVars, laterVars, documentVars, runVars, pipelineVars >>

NextDates ==
  \/ ParsePeriodRange
  \/ CalculateExperienceMonths
  \/ FormatExperienceSummary
  \/ SortProjectsByDate

SpecDates == InitDates /\ [][NextDates]_vars

Max(a, b) == IF a >= b THEN a ELSE b

\* the months of one entry by the dates its period was written from
EntryMonths(entry, now) ==
  IF entry.start = NoDate THEN 0
  ELSE LET end == IF entry.end = NoDate THEN now ELSE entry.end
       IN Max(0, (end.year - entry.start.year) * 12 + (end.month - entry.start.month))

RECURSIVE TotalMonths(_, _)
TotalMonths(entries, now) ==
  IF entries = << >> THEN 0
  ELSE EntryMonths(Head(entries), now) + TotalMonths(Tail(entries), now)

\* C13: calculate_experience_months returns the sum over the entries of
\* max(0, (endYear - startYear) * 12 + (endMonth - startMonth)); an entry
\* whose start is no date adds 0, an end that is missing, ongoing or no date
\* is the current month; the result is never negative.
C13_SumOfClampedIntervals ==
  pc = "calculated" =>
     /\ experience_months = TotalMonths(work_experience, today)
     /\ experience_months >= 0

\* two entries have been summed: one that ends before it starts, and one
\* that is ongoing and adds the months up to today
C13_ClampedAndOngoingSummed ==
  /\ pc = "calculated"
  /\ Len(work_experience) = 2
  /\ work_experience[1].start = [year |-> 2021, month |-> 5]
  /\ work_experience[1].end = [year |-> 2020, month |-> 1]
  /\ work_experience[2].start = [year |-> 2019, month |-> 1]
  /\ work_experience[2].end = NoDate
  /\ work_experience[2].period # MonthYear(2, 2019, TRUE)
  /\ today = [year |-> 2021, month |-> 1]
  /\ experience_months = 24

\* the word the rule of the claim gives for n units
RuleWord(n, one, few, many) ==
  CASE n % 10 = 1 /\ n % 100 # 11 -> one
    [] n % 10 \in 2..4 /\ n % 100 \notin 12..14 -> few
    [] OTHER -> many

\* T months rendered as the claim says
Rendered(T) ==
  LET years == T \div 12
      months == T % 12
      y == Digits(years) \o << " " >> \o RuleWord(years, Word_GOD, Word_GODA, Word_LET)
      m == Digits(months) \o << " " >>
           \o RuleWord(months, Word_MESYAC, Word_MESYACA, Word_MESYACEV)
  IN CASE T = 0 -> MENEE_1_MESYACA
       [] T > 0 /\ months = 0 -> y
       [] T > 0 /\ years = 0 -> m
       [] OTHER -> y \o << " " >> \o m

\* C14: format_experience_summary renders the total T of the entries as
\* T div 12 years and T mod 12 months, a zero component left out, each unit
\* word chosen by the three-way rule; T = 0, also for an empty list, gives
\* 'MENEE 1 MESYACA'; 2 months give '2 MESYACA' and 24 months '2 GODA'.
C14_SummaryByPluralRule ==
  pc = "formatted" =>
     LET T == TotalMonths(work_experience, today)
     IN /\ experience_summary = Rendered(T)
        /\ work_experience = << >> => experience_summary = MENEE_1_MESYACA
        /\ T = 2 => experience_summary = << "2", " " >> \o Word_MESYACA
        /\ T = 24 => experience_summary = << "2", " " >> \o Word_GODA

\* a start 111 years and 11 months before today has been rendered
C14_Rendered111Years11Months ==
  /\ pc = "formatted"
  /\ Len(work_experience) = 1
  /\ TotalMonths(work_experience, today) = 111 * 12 + 11
  /\ experience_summary = << "1", "1", "1", " " >> \o Word_LET \o << " ", "1", "1", " " >>
                          \o Word_MESYACEV

\* C15: for every year in 1900..2099 and every month name of MONTHS_MAP,
\* parse_period_range on '<month name> <year>' gives the start date with
\* that year and the month of that name.
C15_MonthYearRoundTrip ==
  (/\ pc = "parsed"
   /\ \E m \in 1..Len(MONTHS_MAP) :
        /\ work_experience[1].start.year \in YearMin..YearMax
        /\ work_experience[1].start.month = MONTHS_MAP[m].number
        /\ work_experience[1].period = MonthYear(m, work_experience[1].start.year, FALSE))
  => period_range.start_date = work_experience[1].start

\* 'oktyabrya 1900' has been parsed to October 1900
C15_GenitiveOctober1900 ==
  /\ pc = "parsed"
  /\ work_experience[1].period = MonthYear(20, YearMin, FALSE)
  /\ period_range.start_date = [year |-> YearMin, month |-> 10]

\* the start a comes before the start b in the descending order; a start
\* without a year comes after every start with one
StartsBefore(a, b) == a[1] > b[1] \/ (a[1] = b[1] /\ a[2] > b[2])

\* C16: sort_projects_by_date returns a permutation of its input in the
\* descending order of the start (year, month) of the periods, the entries
\* without a parseable year last and entries with equal starts in their
\* input order; it never raises; entries that encode 2022, 2021 and no date
\* come out in that order.
C16_SortedByStartDescending ==
  pc = "sorted" =>
     /\ exc = "none"
     /\ Len(sorted_projects) = Len(projects)
     /\ \A i \in 1..Len(projects) : \E j \in 1..Len(projects) : sorted_projects[j] = projects[i]
     /\ \A i, j \in 1..Len(sorted_projects) :
          i < j =>
            /\ ~StartsBefore(sorted_projects[j].start, sorted_projects[i].start)
            /\ sorted_projects[i].start = sorted_projects[j].start
                 => sorted_projects[i].no < sorted_projects[j].no

----------------------------------------------------------------------------
(* The extraction step: what a provider answers, the parsing of the answer *)
(* and the two entry points of ai_provider                                 *)

DEFAULT_GEMINI_MODEL == "gemini-2.5-flash"
DEFAULT_OPENROUTER_MODEL == "openai/gpt-4o-mini"

\* s.rfind(sub) + 1: the place of the last occurrence, 0 if there is none
RFind(sub, s) ==
  IF In(sub, s)
  THEN LET places == {i \in 1..(Len(s) - Len(sub) + 1) : SubSeq(s, i, i + Len(sub) - 1) = sub}
       IN CHOOSE i \in places : \A j \in places : j <= i
  ELSE 0

\* the text {"a":1}
JsonObject == << "{", "\"", "a", "\"", ":", "1", "}" >>

\* the text {"work_experience":null}
NullListObject == << "{", "\"work_experience\"", ":", "null", "}" >>

\* the texts of the model that json.loads accepts
ValidJson == {<< "{", "}" >>, JsonObject, NullListObject}

\* json.loads(json_str)
json_loads(json_str) ==
  IF json_str \in ValidJson
  THEN [exc |-> "none", value |-> json_str]
  ELSE [exc |-> "JSONDecodeError", value |-> << >>]

\* extract_json_from_response(response_text)
extract_json_from_response(response_text) ==
  LET text == Strip(response_text)
      start_idx == Find(<< "{" >>, text)
      end_idx == RFind(<< "}" >>, text)
  IN IF start_idx = 0 THEN [exc |-> "ValueError", value |-> << >>]
     ELSE IF end_idx = 0 \/ end_idx < start_idx THEN [exc |-> "ValueError", value |-> << >>]
     ELSE json_loads(SubSeq(text, start_idx, end_idx))

\* What an API does with a request is a reply [kind, text]: "unavailable" is
\* an error whose message names 503, 500, 429 or 'unavailable', "error" is
\* any other error, "text" is a response whose text is the field text.
\* GeminiProvider.generate, GeminiProvider.generate_with_file and
\* OpenRouterProvider.generate: the text, or AIProviderError for an error and
\* for a response without text
generate(reply) ==
  IF reply.kind # "text"
  THEN [exc |-> "AIProviderError", unavailable |-> reply.kind = "unavailable", text |-> << >>]
  ELSE IF reply.text = << >>
  THEN [exc |-> "AIProviderError", unavailable |-> FALSE, text |-> << >>]
  ELSE [exc |-> "none", unavailable |-> FALSE, text |-> reply.text]

\* the value the entry points give _last_used_provider_info
UsedGemini == [provider |-> "gemini", model |-> DEFAULT_GEMINI_MODEL]
UsedOpenRouter == [provider |-> "openrouter", model |-> DEFAULT_OPENROUTER_MODEL]

\* how an entry point ends: the exception raised ("none" for a return), the
\* value returned, the value it leaves in _last_used_provider_info and the
\* calls of provider.generate / generate_with_file it has made, in order
Ended(e, value, last_used) ==
  [exc |-> e, value |-> value, last_used |-> last_used, calls |-> << >>]

\* E, reached after the calls of first
After(first, E) == [E EXCEPT !.calls = first \o @]

\* process_file_with_gemini(file_path, ...): direct-file mode
process_file_with_gemini(gemini_key, reply, last_used) ==
  IF ~gemini_key THEN Ended("AIProviderError", << >>, last_used)
  ELSE IF generate(reply).exc # "none"
  THEN After(<< "gemini_file" >>, Ended("AIProviderError", << >>, last_used))
  ELSE After(<< "gemini_file" >>,
             Ended(extract_json_from_response(generate(reply).text).exc,
                   extract_json_from_response(generate(reply).text).value,
                   UsedGemini))

\* the OpenRouter part of process_with_fallback, with OpenRouter asked twice
OpenRouterAskedTwice(openrouter_key, reply, last_used) ==
  IF ~openrouter_key THEN Ended("AIProviderError", << >>, last_used)
  ELSE IF generate(reply).exc # "none"
  THEN After(<< "openrouter", "openrouter" >>, Ended("AIProviderError", << >>, last_used))
  ELSE IF extract_json_from_response(generate(reply).text).exc # "none"
  THEN After(<< "openrouter", "openrouter" >>,
             Ended("AIProviderError", << >>, UsedOpenRouter))
  ELSE After(<< "openrouter" >>,
             Ended("none", extract_json_from_response(generate(reply).text).value,
                   UsedOpenRouter))

\* the OpenRouter part of process_with_fallback
OpenRouterAttempt(openrouter_key, reply, last_used) ==
  IF ~openrouter_key THEN Ended("AIProviderError", << >>, last_used)
  ELSE IF generate(reply).exc # "none"
  THEN After(<< "openrouter" >>, Ended("AIProviderError", << >>, last_used))
  ELSE IF extract_json_from_response(generate(reply).text).exc # "none"
  THEN After(<< "openrouter" >>, Ended("AIProviderError", << >>, UsedOpenRouter))
  ELSE After(<< "openrouter" >>,
             Ended("none", extract_json_from_response(generate(reply).text).value,
                   UsedOpenRouter))

\* process_with_fallback(markdown_content, ...): text mode
process_with_fallback(gemini_key, openrouter_key, gemini_reply, openrouter_reply, last_used) ==
  IF ~gemini_key /\ ~openrouter_key THEN Ended("AIProviderError", << >>, last_used)
  ELSE IF ~gemini_key THEN OpenRouterAttempt(openrouter_key, openrouter_reply, last_used)
  ELSE IF generate(gemini_reply).exc # "none"
  THEN IF ~generate(gemini_reply).unavailable /\ ~openrouter_key
       THEN After(<< "gemini" >>, Ended("AIProviderError", << >>, last_used))
       ELSE After(<< "gemini" >>,
                  OpenRouterAttempt(openrouter_key, openrouter_reply, last_used))
  ELSE IF extract_json_from_response(generate(gemini_reply).text).exc = "none"
  THEN After(<< "gemini" >>,
             Ended("none", extract_json_from_response(generate(gemini_reply).text).value,
                   UsedGemini))
  ELSE IF ~openrouter_key
  THEN After(<< "gemini" >>, Ended("AIProviderError", << >>, UsedGemini))
  ELSE After(<< "gemini" >>,
             OpenRouterAttempt(openrouter_key, openrouter_reply, UsedGemini))

\* step2_file_to_json: direct-file mode first, text mode when it raised
\* AIProviderError or there is no Gemini key
step2_file_to_json(gemini_key, openrouter_key, file_reply, gemini_reply, openrouter_reply, last_used) ==
  IF gemini_key /\ process_file_with_gemini(gemini_key, file_reply, last_used).exc
                     # "AIProviderError"
  THEN process_file_with_gemini(gemini_key, file_reply, last_used)
  ELSE After(process_file_with_gemini(gemini_key, file_reply, last_used).calls,
             process_with_fallback(gemini_key, openrouter_key, gemini_reply,
                                   openrouter_reply, last_used))

----------------------------------------------------------------------------
(* Specification SpecExtract: one call of the extraction step.             *)
(*   request.mode = "file":  process_file_with_gemini                      *)
(*   request.mode = "text":  process_with_fallback                         *)
(*   request.mode = "step2": step2_file_to_json, which calls both          *)

\* empty, blank, an object, an object inside prose, a closing brace before
\* the opening one, no closing brace, braces around what is no JSON, no
\* brace at all, two objects
ResponseTexts ==
  {<< >>, << " " >>, JsonObject, << "o", "k", " " >> \o JsonObject \o << "." >>,
   << "}", "{" >>, << "{" >>, << "{", "a", "}" >>, << "n", "o" >>, << "{", "}", "{", "}" >>}

Replies ==
  {[kind |-> "unavailable", text |-> << >>], [kind |-> "error", text |-> << >>]}
  \cup {[kind |-> "text", text |-> t] : t \in ResponseTexts}

NoReply == [kind |-> "error", text |-> << >>]

InitExtract ==
  /\ \E gemini_key \in BOOLEAN, openrouter_key \in BOOLEAN :
       \/ \E r \in Replies :
            request = [mode |-> "file", gemini_key |-> gemini_key,
                       openrouter_key |-> openrouter_key, file_reply |-> r,
                       gemini_reply |-> NoReply, openrouter_reply |-> NoReply]
       \/ \E g \in Replies, o \in Replies :
            request = [mode |-> "text", gemini_key |-> gemini_key,
                       openrouter_key |-> openrouter_key, file_reply |-> NoReply,
                       gemini_reply |-> g, openrouter_reply |-> o]
       \/ \E r \in Replies, g \in Replies, o \in Replies :
            request = [mode |-> "step2", gemini_key |-> gemini_key,
                       openrouter_key |-> openrouter_key, file_reply |-> r,
                       gemini_reply |-> g, openrouter_reply |-> o]
  /\ last_used_provider_info \in {NoProvider, UsedOpenRouter}
  /\ extraction = << >>
  /\ conversions = << >>
  /\ temp_dirs = {}
  /\ next_document = 1
  /\ pc = "extract"
  /\ exc = "none"
  /\ doc = << >>
  /\ tables = << >>
  /\ nextId = 1
  /\ doc0 = doc
  /\ FillIdle
  /\ MarkerIdle
  /\ HeaderIdle
  /\ LaterIdle
  /\ DocumentIdle
  /\ RunIdle
  /\ DateIdle

\* the call has ended as E
ExtractEnds(E) ==
  /\ extraction' = [exc |-> E.exc, value |-> E.value, calls |-> E.calls]
  /\ last_used_provider_info' = E.last_used
  /\ exc' = E.exc
  /\ pc' = "extracted"
  /\ UNCHANGED << doc, tables, nextId, request, conversions, temp_dirs, next_document >>
  /\ UNCHANGED << fillVars, saveVars, markerVars, headerVars, laterVars, documentVars, runVars, dateVars >>

\* process_file_with_gemini(file_path, json_template, ...)
ProcessFileWithGemini ==
  /\ pc = "extract"
  /\ request.mode = "file"
  /\ ExtractEnds(process_file_with_gemini(request.gemini_key, request.file_reply,
                                          last_used_provider_info))

\* process_with_fallback(markdown_content, json_template, ...)
ProcessWithFallback ==
  /\ pc = "extract"
  /\ request.mode = "text"
  /\ ExtractEnds(process_with_fallback(request.gemini_key, request.openrouter_key,
                                       request.gemini_reply, request.openrouter_reply,
                                       last_used_provider_info))

\* step2_file_to_json(input_file, input_kind, ...)
Step2FileToJson ==
  /\ pc = "extract"
  /\ request.mode = "step2"
  /\ ExtractEnds(step2_file_to_json(request.gemini_key, request.openrouter_key,
                                    request.file_reply, request.gemini_reply,
                                    request.openrouter_reply, last_used_provider_info))

NextExtract ==
  \/ ProcessFileWithGemini
  \/ ProcessWithFallback
  \/ Step2FileToJson

SpecExtract == InitExtract /\ [][NextExtract]_vars

\* the response of the reply is empty or cannot be parsed as JSON
Malformed(reply) ==
  /\ reply.kind = "text"
  /\ reply.text = << >> \/ extract_json_from_response(reply.text).exc # "none"

\* C19: a call of process_file_with_gemini whose response is empty or cannot
\* be parsed as JSON, and a call of process_with_fallback in which the
\* response of every provider that has a key is, end with AIProviderError.
C19_MalformedResponseIsAIProviderError ==
  pc = "extracted" =>
    /\ (/\ request.mode = "file"
        /\ request.gemini_key
        /\ Malformed(request.file_reply))
       => extraction.exc = "AIProviderError"
    /\ (/\ request.mode = "text"
        /\ request.gemini_key \/ request.openrouter_key
        /\ request.gemini_key => Malformed(request.gemini_reply)
        /\ request.openrouter_key => Malformed(request.openrouter_reply))
       => extraction.exc = "AIProviderError"

\* the attempt on the provider that answers with reply has failed: the API
\* raised, or the response is empty or cannot be parsed as JSON
AttemptFailed(reply) == reply.kind # "text" \/ Malformed(reply)

\* C25: a call of process_with_fallback asks Gemini first whenever there is a
\* Gemini key, asks OpenRouter only with an OpenRouter key and after the
\* Gemini attempt failed or without a Gemini key, asks each provider at most
\* once, ends with AIProviderError and without any call when there is no
\* key, and ends with AIProviderError when every provider that has a key
\* failed.
C25_GeminiFirstThenOpenRouterOnce ==
  (pc = "extracted" /\ request.mode = "text") =>
    /\ extraction.calls \in {<< >>, << "gemini" >>, << "openrouter" >>,
                             << "gemini", "openrouter" >>}
    /\ request.gemini_key <=> (extraction.calls # << >> /\ extraction.calls[1] = "gemini")
    /\ (\E i \in DOMAIN extraction.calls : extraction.calls[i] = "openrouter")
         => /\ request.openrouter_key
            /\ ~request.gemini_key \/ AttemptFailed(request.gemini_reply)
    /\ (~request.gemini_key /\ ~request.openrouter_key)
         => extraction.calls = << >> /\ extraction.exc = "AIProviderError"
    /\ (/\ request.gemini_key => AttemptFailed(request.gemini_reply)
        /\ request.openrouter_key => AttemptFailed(request.openrouter_reply))
         => extraction.exc = "AIProviderError"

\* Gemini failed with an error that is no availability error, OpenRouter was
\* asked after it and answered with JSON
C25_OpenRouterAskedAfterGeminiFailed ==
  /\ pc = "extracted"
  /\ request.mode = "text"
  /\ request.gemini_reply.kind = "error"
  /\ extraction.calls = << "gemini", "openrouter" >>
  /\ extraction.exc = "none"

\* the direct attempt of step2_file_to_json has failed: there is a Gemini
\* key and the API raised, answered without text or with what is no JSON
DirectAttemptFailed ==
  /\ request.gemini_key
  /\ request.file_reply.kind # "text" \/ Malformed(request.file_reply)

\* C26: when the direct attempt of step2_file_to_json fails, or there is no
\* Gemini key, step 2 ends as process_with_fallback on the extracted text
\* ends: the failure of the direct attempt alone never makes it fail.
C26_DirectFailureFallsBackToText ==
  (/\ pc = "extracted"
   /\ request.mode = "step2"
   /\ DirectAttemptFailed \/ ~request.gemini_key)
  => /\ extraction.exc = "none"
        <=> process_with_fallback(request.gemini_key, request.openrouter_key,
                                  request.gemini_reply, request.openrouter_reply,
                                  NoProvider).exc = "none"
     /\ extraction.exc \in {"none", "AIProviderError"}

----------------------------------------------------------------------------
(* Specifications SpecConverter and SpecRun: conversions run by            *)
(* ResumeConverter.                                                        *)
(*   SpecConverter: _process_file invocations of the bot (caller "bot"),   *)
(*     which share the event loop, the module global written by the        *)
(*     worker threads and the file system;                                 *)
(*   SpecRun: one ResumeConverter driven by run() or run_async() (caller   *)
(*     "run"), with any configuration.                                     *)
(* A conversion is the record of its locals and of its converter's fields; *)
(* at is the stage its generator is at, phase is "idle" before the first   *)
(* stage function is entered, "running" inside a stage function and        *)
(* "yielded" while the stage it has returned is with the consumer.         *)

MaxConversions == 2

\* converter.result before ConversionResult is assigned: None
NoResult == [set |-> FALSE, output_file |-> << >>]

\* the names the bot receives with a document
FileNames == {<< "cv", ".pdf" >>, << "cv", ".docx" >>}

\* the names tempfile can give a directory
TempNames == {"/tmp/tmpa", "/tmp/tmpb", "/tmp/tmpc"}

\* a reused name for a directory: what mkdtemp never gives
mkdtemp_reusing(existing) == TempNames

\* tempfile.TemporaryDirectory(): a directory that did not exist
mkdtemp(existing) == TempNames \ existing

\* Path(file_name).stem: the name without its last suffix
Stem(file_name) ==
  IF Len(file_name) > 1 THEN SubSeq(file_name, 1, Len(file_name) - 1) ELSE file_name

\* os.path.join(temp_dir, f"{original_name}.docx")
OutputPath(temp_dir, file_name) == << temp_dir, "/" >> \o Stem(file_name) \o << ".docx" >>

\* the configuration _process_file gives its converter
BotConfig ==
  [use_direct_file_mode |-> TRUE, skip_step1 |-> TRUE, skip_step2 |-> FALSE,
   skip_step3 |-> FALSE, keep_intermediate |-> FALSE]

\* what the answers of the providers are drawn from in a conversion
StageReplies ==
  {[kind |-> "unavailable", text |-> << >>], [kind |-> "text", text |-> JsonObject],
   [kind |-> "text", text |-> << "{" >>], [kind |-> "text", text |-> NullListObject]}

\* a conversion before its first step
NewConversion(caller, method, config, verbose, file_name, md_exists, json_exists) ==
  [caller |-> caller, method |-> method, config |-> config, verbose |-> verbose,
   file_name |-> file_name, wrote |-> [md |-> FALSE, json |-> FALSE],
   temp_dir |-> "", docx_path |-> << >>, md_exists |-> md_exists,
   json_exists |-> json_exists, created_files |-> [md |-> FALSE, json |-> FALSE],
   removed_files |-> << >>, at |-> IF caller = "bot" THEN "new" ELSE "step1",
   phase |-> "idle", stages |-> << >>, log |-> << >>, result |-> NoResult,
   document |-> 0, written |-> << >>, served |-> "None", model_info |-> "unset",
   exc |-> "none"]

\* invocations of _process_file, each with the document it has received
InitConverter ==
  /\ \E n \in 1..MaxConversions : \E names \in [1..n -> FileNames] :
       conversions = [c \in 1..n |->
                        NewConversion("bot", "run_iter_async", BotConfig, FALSE,
                                      names[c], FALSE, FALSE)]
  /\ request = [gemini_key |-> TRUE, openrouter_key |-> TRUE]
  /\ last_used_provider_info = NoProvider
  /\ extraction = << >>
  /\ temp_dirs = {}
  /\ next_document = 1
  /\ pc = "convert"
  /\ exc = "none"
  /\ doc = << >>
  /\ tables = << >>
  /\ nextId = 1
  /\ doc0 = doc
  /\ FillIdle
  /\ MarkerIdle
  /\ HeaderIdle
  /\ LaterIdle
  /\ DocumentIdle
  /\ RunIdle
  /\ DateIdle

\* one converter driven by run() (run_iter) or run_async() (run_iter_async),
\* with any configuration, intermediate files and keys
InitRun ==
  /\ \E method \in {"run_iter", "run_iter_async"},
        config \in [use_direct_file_mode : BOOLEAN, skip_step1 : BOOLEAN,
                    skip_step2 : BOOLEAN, skip_step3 : BOOLEAN,
                    keep_intermediate : BOOLEAN],
        verbose \in BOOLEAN, md_exists \in BOOLEAN, json_exists \in BOOLEAN :
       conversions = << [NewConversion("run", method, config, verbose,
                                       << "cv", ".pdf" >>, md_exists, json_exists)
                           EXCEPT !.docx_path = << "cv_filled", ".docx" >>] >>
  /\ request \in [gemini_key : BOOLEAN, openrouter_key : BOOLEAN]
  /\ last_used_provider_info = NoProvider
  /\ extraction = << >>
  /\ temp_dirs = {}
  /\ next_document = 1
  /\ pc = "convert"
  /\ exc = "none"
  /\ doc = << >>
  /\ tables = << >>
  /\ nextId = 1
  /\ doc0 = doc
  /\ FillIdle
  /\ MarkerIdle
  /\ HeaderIdle
  /\ LaterIdle
  /\ DocumentIdle
  /\ RunIdle
  /\ DateIdle

\* what a step of a conversion leaves alone
ConverterFrame ==
  /\ UNCHANGED << doc, tables, nextId, pc, exc, request, extraction >>
  /\ UNCHANGED << fillVars, saveVars, markerVars, headerVars, laterVars, documentVars, runVars, dateVars >>

\* the order in which run_iter and run_iter_async run the stages
StageOrder == << "step1", "step2", "step3", "cleanup" >>

\* an order that runs step 3 before step 2
StageAfterSwapped(name) ==
  CASE name = "step1" -> "step3" [] name = "step3" -> "step2" [] name = "step2" -> "cleanup"
    [] OTHER -> "result"

\* the stage the generator runs after the stage name
StageAfter(name) ==
  CASE name = "step1" -> "step2" [] name = "step2" -> "step3" [] name = "step3" -> "cleanup"
    [] OTHER -> "result"

\* _remove_intermediate_files() removes the file kind ("md" or "json")
Removes(cv, kind) ==
  /\ ~cv.config.keep_intermediate
  /\ cv.created_files[kind]
  /\ IF kind = "md" THEN cv.md_exists ELSE cv.json_exists

\* _remove_intermediate_files(): the files it removes
RemovedFiles(cv) ==
  (IF Removes(cv, "md") THEN << "md" >> ELSE << >>)
  \o (IF Removes(cv, "json") THEN << "json" >> ELSE << >>)

\* the conversion once _remove_intermediate_files() has run
AfterRemoval(cv) ==
  [cv EXCEPT !.removed_files = RemovedFiles(cv),
             !.md_exists = cv.md_exists /\ ~Removes(cv, "md"),
             !.json_exists = cv.json_exists /\ ~Removes(cv, "json")]

\* self.result = ConversionResult(...)
WithResult(cv) ==
  [cv EXCEPT !.result = [set |-> TRUE,
                          output_file |-> IF cv.config.skip_step3 THEN << >>
                                          ELSE cv.docx_path],
             !.at = "returned", !.phase = "idle"]

\* the stage function returns stage: the generator yields it
Yields(cv, status) ==
  [cv EXCEPT !.phase = "yielded",
             !.stages = Append(cv.stages, [name |-> cv.at, status |-> status]),
             !.log = Append(cv.log, << "end", cv.at >>)]

\* the stage function raises e: except Exception: _cleanup_on_error(); raise
Raises(cv, e) ==
  [AfterRemoval(cv) EXCEPT !.at = "raised", !.phase = "idle", !.exc = e,
                           !.log = Append(cv.log, << "raise", cv.at >>)]

\* with tempfile.TemporaryDirectory() as temp_dir: ... ResumeConverter(config)
EnterTemporaryDirectory(c) ==
  /\ conversions[c].at = "new"
  /\ \E dir \in mkdtemp(temp_dirs) :
       /\ temp_dirs' = temp_dirs \cup {dir}
       /\ conversions' =
            [conversions EXCEPT ![c] =
               [@ EXCEPT !.temp_dir = dir,
                         !.docx_path = OutputPath(dir, conversions[c].file_name),
                         !.at = "step1"]]
  /\ UNCHANGED << last_used_provider_info, next_document >>
  /\ ConverterFrame

\* the stage function name opens a Document: step 3 when it is not skipped
Opens(cv, name) == name = "step3" /\ ~cv.config.skip_step3

\* the generator enters the stage function name (_run_step1, _run_step2,
\* _run_step3 or _cleanup), in a worker thread for run_iter_async; step 3
\* opens its own Document, of identity id
Enters(cv, name, id) ==
  [cv EXCEPT !.at = name, !.phase = "running",
             !.log = Append(cv.log, << "begin", name >>),
             !.document = IF Opens(cv, name) THEN id ELSE cv.document]

\* the consumer asks for the first stage: the generator enters _run_step1
BeginStage(c) ==
  /\ conversions[c].at = StageOrder[1]
  /\ conversions[c].phase = "idle"
  /\ conversions' = [conversions EXCEPT ![c] = Enters(@, StageOrder[1], next_document)]
  /\ UNCHANGED << last_used_provider_info, temp_dirs, next_document >>
  /\ ConverterFrame

\* _run_step1 returns or raises
EndStep1(c) ==
  /\ conversions[c].at = "step1"
  /\ conversions[c].phase = "running"
  /\ LET cv == conversions[c]
     IN \E converted \in BOOLEAN :
          conversions' =
            [conversions EXCEPT ![c] =
               IF cv.config.use_direct_file_mode THEN Yields(cv, "skipped")
               ELSE IF cv.config.skip_step1
               THEN IF cv.md_exists THEN Yields(cv, "skipped")
                    ELSE Raises(cv, "FileNotFoundError")
               ELSE IF converted
               THEN Yields([cv EXCEPT !.md_exists = TRUE, !.wrote.md = TRUE,
                                      !.created_files.md = TRUE],
                           "completed")
               ELSE Raises(cv, "Exception")]
  /\ UNCHANGED << last_used_provider_info, temp_dirs, next_document >>
  /\ ConverterFrame

\* step2_md_to_json: process_with_gemini calls process_with_fallback and,
\* when that raises and there is a Gemini key, the legacy function, which
\* returns or raises
step2_md_to_json(gemini_key, openrouter_key, gemini_reply, openrouter_reply, legacy, last_used) ==
  IF process_with_fallback(gemini_key, openrouter_key, gemini_reply, openrouter_reply,
                           last_used).exc # "none" /\ gemini_key
  THEN Ended(IF legacy THEN "none" ELSE "Exception", << >>,
             process_with_fallback(gemini_key, openrouter_key, gemini_reply,
                                   openrouter_reply, last_used).last_used)
  ELSE process_with_fallback(gemini_key, openrouter_key, gemini_reply, openrouter_reply,
                             last_used)

\* the statistics step2_md_to_json and step2_file_to_json print of
\* final_data when verbose: len() of a value that is None raises TypeError
StatisticsRaise(final_data) == final_data = NullListObject

\* the extraction of step 2 has ended as E: on a return save_json writes the
\* JSON file, the statistics are printed when verbose, the step function
\* returns and _run_step2 sets _created_files['json']
Step2Ends(c, E) ==
  /\ last_used_provider_info' = E.last_used
  /\ conversions' =
       [conversions EXCEPT ![c] =
          IF E.exc # "none" THEN Raises(@, E.exc)
          ELSE IF @.verbose /\ StatisticsRaise(E.value)
          THEN Raises([@ EXCEPT !.json_exists = TRUE, !.wrote.json = TRUE], "TypeError")
          ELSE Yields([@ EXCEPT !.json_exists = TRUE, !.wrote.json = TRUE,
                                !.created_files.json = TRUE,
                                !.served = E.last_used.provider],
                      "completed")]

\* _run_step2 returns or raises
EndStep2(c) ==
  /\ conversions[c].at = "step2"
  /\ conversions[c].phase = "running"
  /\ LET cv == conversions[c]
     IN IF cv.config.skip_step2
        THEN /\ conversions' =
                  [conversions EXCEPT ![c] =
                     IF cv.json_exists THEN Yields(cv, "skipped")
                     ELSE Raises(cv, "FileNotFoundError")]
             /\ UNCHANGED last_used_provider_info
        ELSE \E r \in StageReplies, g \in StageReplies, o \in StageReplies,
                legacy \in BOOLEAN :
               IF cv.config.use_direct_file_mode
               THEN Step2Ends(c, step2_file_to_json(request.gemini_key,
                                                    request.openrouter_key, r, g, o,
                                                    last_used_provider_info))
               ELSE Step2Ends(c, step2_md_to_json(request.gemini_key,
                                                  request.openrouter_key, g, o, legacy,
                                                  last_used_provider_info))
  /\ UNCHANGED << temp_dirs, next_document >>
  /\ ConverterFrame

\* _run_step3 returns or raises: fill_document saves its Document to
\* docx_path, or to the fallback path when docx_path is locked, and
\* step3_json_to_docx returns docx_path
EndStep3(c) ==
  /\ conversions[c].at = "step3"
  /\ conversions[c].phase = "running"
  /\ LET cv == conversions[c]
     IN \E saved \in {"ok", "locked", "raised"}, now \in Clock :
          conversions' =
            [conversions EXCEPT ![c] =
               IF cv.config.skip_step3 THEN Yields(cv, "skipped")
               ELSE IF saved = "raised" THEN Raises(cv, "Exception")
               ELSE Yields([cv EXCEPT !.written = IF saved = "ok" THEN cv.docx_path
                                                   ELSE FallbackPath(cv.docx_path, now)],
                           "completed")]
  /\ UNCHANGED << last_used_provider_info, temp_dirs, next_document >>
  /\ ConverterFrame

\* _cleanup returns: a stage when files were removed, else None and the
\* generator goes on to set the result
EndCleanup(c) ==
  /\ conversions[c].at = "cleanup"
  /\ conversions[c].phase = "running"
  /\ LET cv == conversions[c]
     IN conversions' =
          [conversions EXCEPT ![c] =
             IF RemovedFiles(cv) # << >> THEN Yields(AfterRemoval(cv), "completed")
             ELSE WithResult([AfterRemoval(cv) EXCEPT
                                !.log = Append(cv.log, << "end", "cleanup" >>)])]
  /\ UNCHANGED << last_used_provider_info, temp_dirs, next_document >>
  /\ ConverterFrame

\* get_last_used_provider() as _build_model_info renders it
get_last_used_provider == last_used_provider_info.provider

\* the consumer takes the stage and asks for the next one: the body of the
\* loop of _process_file reads the provider after a completed step 2; the
\* generator then enters the next stage function, or sets the result after
\* the cleanup stage
ConsumeStage(c) ==
  /\ conversions[c].phase = "yielded"
  /\ LET cv == conversions[c]
         stage == cv.stages[Len(cv.stages)]
         handled == IF /\ cv.caller = "bot"
                       /\ stage.name = "step2"
                       /\ stage.status = "completed"
                    THEN [cv EXCEPT !.model_info = get_last_used_provider]
                    ELSE cv
     IN /\ conversions' =
             [conversions EXCEPT ![c] =
                IF StageAfter(cv.at) = "result" THEN WithResult(handled)
                ELSE Enters(handled, StageAfter(cv.at), next_document)]
        /\ next_document' = IF Opens(cv, StageAfter(cv.at)) THEN next_document + 1
                            ELSE next_document
  /\ UNCHANGED << last_used_provider_info, temp_dirs >>
  /\ ConverterFrame

\* _process_file reads converter.result, sends the document or the error
\* and leaves the with block: the directory is removed
LeaveTemporaryDirectory(c) ==
  /\ conversions[c].caller = "bot"
  /\ conversions[c].at \in {"returned", "raised"}
  /\ temp_dirs' = temp_dirs \ {conversions[c].temp_dir}
  /\ conversions' = [conversions EXCEPT ![c] = [@ EXCEPT !.at = "left"]]
  /\ UNCHANGED << last_used_provider_info, next_document >>
  /\ ConverterFrame

NextConverter ==
  \/ \E c \in DOMAIN conversions : EnterTemporaryDirectory(c)
  \/ \E c \in DOMAIN conversions : BeginStage(c)
  \/ \E c \in DOMAIN conversions : EndStep1(c)
  \/ \E c \in DOMAIN conversions : EndStep2(c)
  \/ \E c \in DOMAIN conversions : EndStep3(c)
  \/ \E c \in DOMAIN conversions : EndCleanup(c)
  \/ \E c \in DOMAIN conversions : ConsumeStage(c)
  \/ \E c \in DOMAIN conversions : LeaveTemporaryDirectory(c)

SpecConverter == InitConverter /\ [][NextConverter]_vars

\* the steps of one run of a converter
NextRun ==
  \/ \E c \in DOMAIN conversions : BeginStage(c)
  \/ \E c \in DOMAIN conversions : EndStep1(c)
  \/ \E c \in DOMAIN conversions : EndStep2(c)
  \/ \E c \in DOMAIN conversions : EndStep3(c)
  \/ \E c \in DOMAIN conversions : EndCleanup(c)
  \/ \E c \in DOMAIN conversions : ConsumeStage(c)

SpecRun == InitRun /\ [][NextRun]_vars

\* the conversion c is an invocation of _process_file inside its with block
InBlock(c) ==
  /\ conversions[c].caller = "bot"
  /\ conversions[c].at \notin {"new", "left"}

\* C17: two invocations of _process_file that are both inside their with
\* blocks have different output paths, have written different files, and
\* no two conversions fill the same Document instance.
C17_ConcurrentFillsApart ==
  \A c \in DOMAIN conversions : \A d \in DOMAIN conversions :
    c # d =>
      /\ (InBlock(c) /\ InBlock(d)) =>
           /\ conversions[c].docx_path # conversions[d].docx_path
           /\ conversions[c].written # << >> => conversions[c].written # conversions[d].written
           /\ conversions[c].written # << >> => conversions[c].written # conversions[d].docx_path
      /\ conversions[c].document # 0 => conversions[c].document # conversions[d].document

\* two invocations that received a document of the same name are both
\* inside step 3, each with its Document open
C17_SameNameFilledAtOnce ==
  /\ Len(conversions) = 2
  /\ conversions[1].file_name = conversions[2].file_name
  /\ \A c \in {1, 2} :
       /\ conversions[c].caller = "bot"
       /\ conversions[c].at = "step3"
       /\ conversions[c].phase = "running"
       /\ conversions[c].document # 0

\* C18: the provider an invocation of _process_file has read after its
\* step 2 is the provider that served its own step 2.
C18_ReportsOwnProvider ==
  \A c \in DOMAIN conversions :
    conversions[c].model_info # "unset" => conversions[c].model_info = conversions[c].served

\* C20: the stages a run has yielded are the first stages of step1, step2,
\* step3, cleanup, in that order and each once; a stage function is entered
\* only after the stage before it has returned; the result is set only
\* after step 3 and the cleanup have returned, and never after a raise.
C20_StagesInOrderThenResult ==
  \A c \in DOMAIN conversions :
    LET cv == conversions[c]
    IN /\ Len(cv.stages) <= Len(StageOrder)
       /\ \A i \in 1..Len(cv.stages) : cv.stages[i].name = StageOrder[i]
       /\ Len(cv.log) <= 2 * Len(StageOrder)
       /\ \A i \in 1..Len(cv.log) :
            /\ cv.log[i][2] = StageOrder[(i + 1) \div 2]
            /\ i % 2 = 1 => cv.log[i][1] = "begin"
            /\ i % 2 = 0 => cv.log[i][1] \in {"end", "raise"}
            /\ cv.log[i][1] = "raise" => i = Len(cv.log)
       /\ cv.result.set =>
            /\ Len(cv.log) = 2 * Len(StageOrder)
            /\ cv.log[Len(cv.log)] = << "end", "cleanup" >>
            /\ cv.at \in {"returned", "left"}
       /\ cv.at = "raised" => ~cv.result.set

\* a run of run_iter has yielded the four stages and set its result
C20_RunIterYieldedAllStages ==
  /\ Len(conversions) = 1
  /\ conversions[1].method = "run_iter"
  /\ Len(conversions[1].stages) = 4
  /\ conversions[1].stages[4].name = "cleanup"
  /\ conversions[1].result.set

\* the run of the conversion c has ended: its generator has returned or raised
RunEnded(c) == conversions[c].at \in {"returned", "raised"}

\* C27: a converter removes an intermediate file only if its run wrote it;
\* when its run has ended, by a return or by a raise, without
\* keep_intermediate no intermediate file the run wrote is left, and with
\* keep_intermediate nothing was removed.
C27_CreatedIntermediatesRemoved ==
  \A c \in DOMAIN conversions :
    LET cv == conversions[c]
    IN /\ \A i \in DOMAIN cv.removed_files : cv.wrote[cv.removed_files[i]]
       /\ cv.config.keep_intermediate => cv.removed_files = << >>
       /\ (RunEnded(c) /\ ~cv.config.keep_intermediate) =>
            /\ cv.wrote.md => ~cv.md_exists
            /\ cv.wrote.json => ~cv.json_exists

----------------------------------------------------------------------------
(* The block expansion of process_list_field, under SpecMarkers            *)

\* the list field whose block the template holds, "" if it holds the block
\* of a collection
BlockListField ==
  IF \E f \in {"skills_and_tools", "hard_skills"} :
       doc0[2].runs = << << Tok(StartMarker(f)) >> >>
  THEN CHOOSE f \in {"skills_and_tools", "hard_skills"} :
         doc0[2].runs = << << Tok(StartMarker(f)) >> >>
  ELSE ""

\* the place in the body of the paragraph of identity id
PlaceOf(id) == CHOOSE n \in 1..Len(doc) : doc[n].id = id

\* the template paragraphs of the block as the template holds them
BlockTemplateParas == SubSeq(doc0, 3, Len(doc0) - 2)

\* process_list_field has just run on the field of the template's block, a
\* list of at least one item, and the block holds a template paragraph
\* that is not blank
ListBlockExpanded ==
  /\ BlockListField # ""
  /\ pc \in {"lists", "work_experience", "raised"}
  /\ list_no >= 1
  /\ ListFields[list_no] = BlockListField
  /\ data.lists[BlockListField].is_list
  /\ data.lists[BlockListField].items # << >>
  /\ \E n \in 1..Len(BlockTemplateParas) : RunsText(BlockTemplateParas[n]) # << >>

\* C30: after the block expansion of process_list_field for a list of K >= 1
\* items, exactly K paragraphs stand between the two marker paragraphs, in
\* item order, and the text of each is one copy of the formatted item,
\* prefixed with a bullet if and only if the template paragraph starts with
\* a bullet or a dash, however many runs the template paragraph has.
C30_OneCopyOfEachItem ==
  ListBlockExpanded =>
    LET items == data.lists[BlockListField].items
        t == Min({n \in 1..Len(BlockTemplateParas) : RunsText(BlockTemplateParas[n]) # << >>})
        template_text == RunsText(BlockTemplateParas[t])
        first == PlaceOf(2)
        last == PlaceOf(Len(doc0) - 1)
    IN /\ exc = "none"
       /\ last - first - 1 = Len(items)
       /\ \A n \in 1..Len(items) :
            RunsText(doc[first + n])
              = IF template_text[1].k \in {"(bullet)", "-"}
                THEN << Tok("(bullet)") >> \o items[n] ELSE items[n]

----------------------------------------------------------------------------
(* Specification SpecBot: the handlers of the bot that keep and use the    *)
(* document of a user: handle_document, callback_regenerate,               *)
(* callback_regen_no_comment, callback_regen_cancel and                    *)
(* handle_regenerate_comment.  The dispatcher runs every update as a task  *)
(* of its own, so the handlers interleave at their awaits; _process_file   *)
(* is one await here (SpecConverter has its steps).  A document is the     *)
(* number of its file_id, 0 stands for a missing dictionary entry.         *)

Users == {1, 2}

\* the updates the users send in a behaviour
MaxUpdates == 4

\* update k of the sequence updates is dropped: its handler has returned
Without(seq, k) == SubSeq(seq, 1, k - 1) \o SubSeq(seq, k + 1, Len(seq))

InitBot ==
  /\ LAST_FILES = [u \in Users |-> 0]
  /\ PENDING_REGENERATE = [u \in Users |-> 0]
  /\ updates = << >>
  /\ journal = [sent |-> [u \in Users |-> << >>],
                buttons |-> [u \in Users |-> {}],
                open |-> [u \in Users |-> FALSE],
                requests |-> [u \in Users |-> 0],
                runs |-> << >>,
                received |-> 0]
  /\ pc = "polling"
  /\ exc = "none"
  /\ doc = << >>
  /\ tables = << >>
  /\ nextId = 1
  /\ doc0 = doc
  /\ FillIdle
  /\ MarkerIdle
  /\ HeaderIdle
  /\ DocumentIdle
  /\ RunIdle
  /\ DateIdle
  /\ PipelineIdle
  /\ CallIdle

\* what a step of the bot leaves alone
BotFrame ==
  /\ UNCHANGED << doc, tables, nextId, pc, exc, doc0 >>
  /\ UNCHANGED << fillVars, saveVars, markerVars, headerVars, documentVars, runVars,
                  dateVars, pipelineVars, callVars >>

\* the dispatcher starts the handler of an update of user u
Starts(handler, u, info, at) ==
  /\ journal.received < MaxUpdates
  /\ updates' = Append(updates, [handler |-> handler, user |-> u, info |-> info, at |-> at])

\* a regeneration run of the document info starts for user u
RunStarted(u, by, info) ==
  Append(journal.runs, [user |-> u, by |-> by, info |-> info,
                        requested |-> journal.open[u], last_file |-> LAST_FILES[u]])

\* the user u sends a document: handle_document calls _process_file
ReceiveDocument(u) ==
  /\ Starts("handle_document", u, Len(journal.sent[u]) + 1, "process")
  /\ journal' = [journal EXCEPT !.sent[u] = Append(@, Len(@) + 1),
                                !.received = @ + 1]
  /\ UNCHANGED << LAST_FILES, PENDING_REGENERATE >>
  /\ BotFrame

\* _process_file has sent the result with the keyboard of
\* build_after_finish_keyboard, or the error message
ProcessFileEnds(k) ==
  /\ updates[k].at = "process"
  /\ \E sent \in BOOLEAN :
       journal' = [journal EXCEPT !.buttons[updates[k].user] =
                                     IF sent THEN @ \cup {"regenerate"} ELSE @]
  /\ updates' = [updates EXCEPT ![k].at = "processed"]
  /\ UNCHANGED << LAST_FILES, PENDING_REGENERATE >>
  /\ BotFrame

\* _process_file returns to its handler: handle_document stores the
\* document in LAST_FILES, the regeneration handlers return
HandlerReturns(k) ==
  /\ updates[k].at = "processed"
  /\ LAST_FILES' = IF updates[k].handler = "handle_document"
                   THEN [LAST_FILES EXCEPT ![updates[k].user] = updates[k].info]
                   ELSE LAST_FILES
  /\ updates' = Without(updates, k)
  /\ UNCHANGED << PENDING_REGENERATE, journal >>
  /\ BotFrame

\* the user u presses a button the bot has sent: the handler awaits
\* callback.answer()
PressButton(u, button) ==
  /\ button \in journal.buttons[u]
  /\ Starts(CASE button = "regenerate" -> "callback_regenerate"
              [] button = "regen_no_comment" -> "callback_regen_no_comment"
              [] button = "regen_cancel" -> "callback_regen_cancel",
            u, 0, "answer")
  /\ journal' = [journal EXCEPT !.received = @ + 1]
  /\ UNCHANGED << LAST_FILES, PENDING_REGENERATE >>
  /\ BotFrame

\* callback_regenerate after callback.answer()
CallbackRegenerate(k) ==
  /\ updates[k].handler = "callback_regenerate"
  /\ updates[k].at = "answer"
  /\ LET u == updates[k].user
         info == LAST_FILES[u]
     IN IF info = 0
        THEN UNCHANGED << PENDING_REGENERATE, journal >>
        ELSE /\ PENDING_REGENERATE' = [PENDING_REGENERATE EXCEPT ![u] = info]
             /\ journal' = [journal EXCEPT
                              !.open[u] = TRUE,
                              !.requests[u] = @ + 1,
                              !.buttons[u] = @ \cup {"regen_no_comment", "regen_cancel"}]
  /\ updates' = Without(updates, k)
  /\ UNCHANGED LAST_FILES
  /\ BotFrame

\* callback_regen_no_comment after callback.answer():
\* info = PENDING_REGENERATE.pop(user, None) or LAST_FILES.get(user)
CallbackRegenNoComment(k) ==
  /\ updates[k].handler = "callback_regen_no_comment"
  /\ updates[k].at = "answer"
  /\ LET u == updates[k].user
         info == IF PENDING_REGENERATE[u] # 0 THEN PENDING_REGENERATE[u] ELSE LAST_FILES[u]
     IN /\ PENDING_REGENERATE' = [PENDING_REGENERATE EXCEPT ![u] = 0]
        /\ IF info = 0
           THEN /\ updates' = Without(updates, k)
                /\ journal' = [journal EXCEPT !.open[u] = FALSE]
           ELSE /\ updates' = [updates EXCEPT ![k].info = info, ![k].at = "process"]
                /\ journal' = [journal EXCEPT !.open[u] = FALSE,
                                              !.runs = RunStarted(u, "button", info)]
  /\ UNCHANGED LAST_FILES
  /\ BotFrame

\* callback_regen_cancel after callback.answer()
CallbackRegenCancel(k) ==
  /\ updates[k].handler = "callback_regen_cancel"
  /\ updates[k].at = "answer"
  /\ PENDING_REGENERATE' = [PENDING_REGENERATE EXCEPT ![updates[k].user] = 0]
  /\ journal' = [journal EXCEPT !.open[updates[k].user] = FALSE]
  /\ updates' = Without(updates, k)
  /\ UNCHANGED LAST_FILES
  /\ BotFrame

\* a text message that regenerates the stored document when nothing is pending
HandleRegenerateCommentOrLastFile(u) ==
  /\ journal.received < MaxUpdates
  /\ LET info == IF PENDING_REGENERATE[u] # 0 THEN PENDING_REGENERATE[u] ELSE LAST_FILES[u]
     IN /\ PENDING_REGENERATE' = [PENDING_REGENERATE EXCEPT ![u] = 0]
        /\ IF info = 0
           THEN /\ UNCHANGED updates
                /\ journal' = [journal EXCEPT !.received = @ + 1]
           ELSE /\ updates' = Append(updates, [handler |-> "handle_regenerate_comment",
                                               user |-> u, info |-> info, at |-> "process"])
                /\ journal' = [journal EXCEPT !.received = @ + 1,
                                              !.open[u] = FALSE,
                                              !.runs = RunStarted(u, "text", info)]
  /\ UNCHANGED LAST_FILES
  /\ BotFrame

\* the user u sends a text message: handle_regenerate_comment pops the
\* pending document before its first await
HandleRegenerateComment(u) ==
  /\ journal.received < MaxUpdates
  /\ LET info == PENDING_REGENERATE[u]
     IN /\ PENDING_REGENERATE' = [PENDING_REGENERATE EXCEPT ![u] = 0]
        /\ IF info = 0
           THEN /\ UNCHANGED updates
                /\ journal' = [journal EXCEPT !.received = @ + 1]
           ELSE /\ updates' = Append(updates, [handler |-> "handle_regenerate_comment",
                                               user |-> u, info |-> info, at |-> "process"])
                /\ journal' = [journal EXCEPT !.received = @ + 1,
                                              !.open[u] = FALSE,
                                              !.runs = RunStarted(u, "text", info)]
  /\ UNCHANGED LAST_FILES
  /\ BotFrame

NextBot ==
  \/ \E u \in Users : ReceiveDocument(u)
  \/ \E k \in DOMAIN updates : ProcessFileEnds(k)
  \/ \E k \in DOMAIN updates : HandlerReturns(k)
  \/ \E u \in Users : \E button \in {"regenerate", "regen_no_comment", "regen_cancel"} :
       PressButton(u, button)
  \/ \E k \in DOMAIN updates : CallbackRegenerate(k)
  \/ \E k \in DOMAIN updates : CallbackRegenNoComment(k)
  \/ \E k \in DOMAIN updates : CallbackRegenCancel(k)
  \/ \E u \in Users : HandleRegenerateComment(u)

SpecBot == InitBot /\ [][NextBot]_vars

\* C28 as amended: a regeneration run started by a text message was started
\* for a user whose regenerate request was open (accepted and neither
\* consumed nor cancelled); a run started without an open request was
\* started by the 'without comment' button, for the document LAST_FILES
\* held for that user; the runs started on a request of a user are no more
\* than the requests of that user.
C28_RegenerationOnRequestOrLastFile ==
  /\ \A i \in DOMAIN journal.runs :
       /\ journal.runs[i].info # 0
       /\ journal.runs[i].by = "text" => journal.runs[i].requested
       /\ ~journal.runs[i].requested =>
            /\ journal.runs[i].by = "button"
            /\ journal.runs[i].info = journal.runs[i].last_file
  /\ \A u \in Users :
       Cardinality({i \in DOMAIN journal.runs :
                      journal.runs[i].user = u /\ journal.runs[i].requested})
         <= journal.requests[u]

\* a text message has consumed the request of a user and the 'without
\* comment' button has then started a second run for that user
C28_ButtonRunWithoutRequest ==
  /\ Len(journal.runs) = 2
  /\ journal.runs[1].user = journal.runs[2].user
  /\ journal.runs[1].by = "text"
  /\ journal.runs[1].requested
  /\ journal.runs[2].by = "button"
  /\ ~journal.runs[2].requested

\* C28 as stated: every regeneration run the bot has started, by a text
\* message or by the 'without comment' button, was started for a user whose
\* regenerate request was open, and the runs started for a user are no more
\* than the requests of that user.
C28_RegenerationOnlyOnOpenRequest ==
  /\ \A i \in DOMAIN journal.runs : journal.runs[i].requested
  /\ \A u \in Users :
       Cardinality({i \in DOMAIN journal.runs : journal.runs[i].user = u})
         <= journal.requests[u]

\* a document of the user u is being processed
Processing(u) ==
  \E k \in DOMAIN updates : updates[k].user = u /\ updates[k].at \in {"process", "processed"}

\* C29: whenever no document of a user is being processed, LAST_FILES of
\* that user is the document the user has sent last.
C29_LastFileIsLatestDocument ==
  \A u \in Users :
    (journal.sent[u] # << >> /\ ~Processing(u))
      => LAST_FILES[u] = journal.sent[u][Len(journal.sent[u])]

----------------------------------------------------------------------------
(* Specification SpecCalls: one call of a list or label function on its    *)
(* own.  Texts are sequences of characters here; "(bullet)" is the bullet  *)
(* glyph.  A list item is a string, [is_dict |-> FALSE, text], or an       *)
(* education dict, [is_dict |-> TRUE, degree, institution, year], a field  *)
(* << >> when the dict has no value for it.                                *)

\* the longest string of an item and the longest list of items
MaxChars == 3
MaxNormItems == 2

ItemChars == {"a", " ", "(bullet)", ":"}

\* ", ".join(parts)
RECURSIVE JoinParts(_)
JoinParts(parts) ==
  IF parts = << >> THEN << >>
  ELSE IF Len(parts) = 1 THEN parts[1]
  ELSE parts[1] \o << ",", " " >> \o JoinParts(Tail(parts))

\* format_list_item(item): the string itself, or the parts of an education
\* dict joined by ", " (str(item) when it has no part)
format_list_item(item) ==
  IF ~item.is_dict THEN item.text
  ELSE LET parts == (IF item.degree # << >> THEN << item.degree >> ELSE << >>)
                    \o (IF item.institution # << >> THEN << item.institution >> ELSE << >>)
                    \o (IF item.year # << >>
                        THEN << << "(" >> \o item.year \o << ")" >> >> ELSE << >>)
       IN IF parts # << >> THEN JoinParts(parts) ELSE << "{", "}" >>

\* text.replace('(bullet)', ''): every bullet glyph removed
RemoveBullets(text) == SelectSeq(text, LAMBDA c : c # "(bullet)")

\* the loop of normalize_bullet_items over texts of characters
RECURSIVE NormalizeTexts(_, _, _)
NormalizeTexts(items, placeholders, acc) ==
  IF items = << >> THEN acc
  ELSE LET text == Strip(RemoveBullets(format_list_item(Head(items))))
       IN NormalizeTexts(Tail(items), placeholders,
            IF text # << >> /\ text \notin placeholders THEN Append(acc, text) ELSE acc)

\* the strings of at most n characters
RECURSIVE Strings(_)
Strings(n) ==
  IF n = 0 THEN {<< >>}
  ELSE Strings(n - 1) \cup {Append(t, c) : t \in Strings(n - 1), c \in ItemChars}

StringItem(text) == [is_dict |-> FALSE, text |-> text]

\* the items a list is drawn from: every string, and three education dicts
NormItems ==
  {StringItem(text) : text \in Strings(MaxChars)}
  \cup {[is_dict |-> TRUE, degree |-> d, institution |-> << "a" >>, year |-> y] :
          d \in {<< >>, << "a" >>}, y \in {<< >>, << "1" >>}}
  \cup {[is_dict |-> TRUE, degree |-> << >>, institution |-> << >>, year |-> << >>]}

\* the lists of at most n items
RECURSIVE ItemLists(_)
ItemLists(n) ==
  IF n = 0 THEN {<< >>}
  ELSE ItemLists(n - 1) \cup {Append(l, i) : l \in ItemLists(n - 1), i \in NormItems}

InitCalls ==
  /\ \E items \in ItemLists(MaxNormItems), placeholders \in {{}, {<< "a" >>}} :
       list_args = [fn |-> "normalize_bullet_items", items |-> items,
                    placeholders |-> placeholders]
  /\ list_ret = "None"
  /\ label_args = << >>
  /\ pc = "call"
  /\ exc = "none"
  /\ doc = << >>
  /\ tables = << >>
  /\ nextId = 1
  /\ doc0 = doc
  /\ FillIdle
  /\ MarkerIdle
  /\ HeaderIdle
  /\ DocumentIdle
  /\ RunIdle
  /\ DateIdle
  /\ PipelineIdle
  /\ BotIdle

\* normalize_bullet_items(items, placeholders)
NormalizeBulletItems ==
  /\ pc = "call"
  /\ list_args.fn = "normalize_bullet_items"
  /\ list_ret' = NormalizeTexts(list_args.items, list_args.placeholders, << >>)
  /\ pc' = "returned"
  /\ UNCHANGED << doc, tables, nextId, exc, doc0, list_args, label_args >>
  /\ UNCHANGED << fillVars, saveVars, markerVars, headerVars, documentVars, runVars,
                  dateVars, pipelineVars, botVars >>

NextCalls ==
  \/ NormalizeBulletItems

SpecCalls == InitCalls /\ [][NextCalls]_vars

\* the text of an item as a bullet list shows it: flattened, without its
\* leading bullet glyph, trimmed
ItemText(item) ==
  LET text == Strip(format_list_item(item))
  IN Strip(IF text # << >> /\ text[1] = "(bullet)" THEN Tail(text) ELSE text)

\* the texts of the items that are not empty, no placeholder and no repetition
\* of an earlier item, in the order of the items
RECURSIVE KeptTexts(_, _, _)
KeptTexts(items, placeholders, acc) ==
  IF items = << >> THEN acc
  ELSE KeptTexts(Tail(items), placeholders,
         IF /\ ItemText(Head(items)) # << >>
            /\ ItemText(Head(items)) \notin placeholders
            /\ \A n \in 1..Len(acc) : acc[n] # ItemText(Head(items))
         THEN Append(acc, ItemText(Head(items))) ELSE acc)

\* C23: normalize_bullet_items returns the texts of the items, in the order
\* of the items, each flattened, without its leading bullet glyph and
\* trimmed, without the empty ones, the placeholders and the duplicates, the
\* text otherwise unchanged; applied to what it returned it returns the same.
C23_NormalizedOnceEach ==
  (pc = "returned" /\ list_args.fn = "normalize_bullet_items") =>
    /\ list_ret = KeptTexts(list_args.items, list_args.placeholders, << >>)
    /\ NormalizeTexts([n \in 1..Len(list_ret) |-> StringItem(list_ret[n])],
                      list_args.placeholders, << >>) = list_ret

----------------------------------------------------------------------------
(* Specification SpecBullets: one call of set_bullet_list_in_document on a *)
(* body whose paragraphs are slots ('...') or other paragraphs, with the   *)
(* indices of some of its slots.                                           *)

MaxBulletParas == 4
MaxBulletItems == 3

\* the paragraph n of a body: a slot, or a paragraph that is none
BulletPara(n, slot) ==
  [id |-> n, text |-> IF slot THEN << Tok("...") >> ELSE << Data("other", n, 0) >>]

InitBullets ==
  /\ \E L \in 1..MaxBulletParas : \E slots \in SUBSET (0..(L - 1)) :
       \E indices \in (SUBSET slots) \ {{}} :
         \E n \in 0..MaxBulletItems, blank \in BOOLEAN :
           /\ doc = [m \in 1..L |-> BulletPara(m, (m - 1) \in slots)]
           /\ list_args = [fn |-> "set_bullet_list_in_document",
                           indices |-> SortedSeq(indices),
                           items |-> (IF blank THEN << Tok("(bullet)") >> ELSE << >>)
                                     \o [i \in 1..n |-> Data("task", 0, i)]]
  /\ list_ret = "None"
  /\ label_args = << >>
  /\ pc = "call"
  /\ exc = "none"
  /\ tables = << >>
  /\ nextId = Len(doc) + 1
  /\ doc0 = doc
  /\ FillIdle
  /\ MarkerIdle
  /\ HeaderIdle
  /\ DocumentIdle
  /\ RunIdle
  /\ DateIdle
  /\ PipelineIdle
  /\ BotIdle

\* set_bullet_list_in_document(doc, indices, items)
SetBulletListInDocument ==
  /\ pc = "call"
  /\ list_args.fn = "set_bullet_list_in_document"
  /\ LET S == set_bullet_list_in_document(Frame(doc, nextId, {}, {}, "none"), 0, "tasks",
                                          list_args.indices, list_args.items)
     IN /\ doc' = S.doc
        /\ nextId' = S.nextId
        /\ list_ret' = (S.writes # {})
  /\ pc' = "returned"
  /\ UNCHANGED << tables, exc, doc0, list_args, label_args >>
  /\ UNCHANGED << fillVars, saveVars, markerVars, headerVars, documentVars, runVars,
                  dateVars, pipelineVars, botVars >>

NextBullets ==
  \/ SetBulletListInDocument

SpecBullets == InitBullets /\ [][NextBullets]_vars

\* the paragraphs of the body d whose 0-based index is not in the set slots
RECURSIVE OtherParas(_, _, _)
OtherParas(d, slots, m) ==
  IF m > Len(d) THEN << >>
  ELSE (IF (m - 1) \in slots THEN << >> ELSE << d[m] >>) \o OtherParas(d, slots, m + 1)

----------------------------------------------------------------------------
(* Specification SpecLabel: one call of write_label_and_value on a         *)
(* paragraph [id, runs, fonts]; the texts are sequences of characters.     *)

MaxLabelChars == 2

\* paragraph.add_run(text): a new last run, no attribute of its font set
add_run(p, text) ==
  [p EXCEPT !.runs = Append(@, text), !.fonts = Append(@, NoFont)]

\* the font of the last run of p replaced
WithLastFont(p, font) == [p EXCEPT !.fonts[Len(p.fonts)] = font]

\* a run added with the font of the run before it, the default font if none
AddRunLikeRunBefore(p, text) ==
  WithLastFont(add_run(p, text),
               IF Len(p.fonts) > 0 THEN p.fonts[Len(p.fonts)]
               ELSE apply_default_font(NoFont))

\* add_run_with_default_font(paragraph, text)
add_run_with_default_font(p, text) ==
  WithLastFont(add_run(p, text), apply_default_font(NoFont))

\* clone_run_formatting(source_run, target_run): the font of target_run after it
clone_run_formatting(source_font, target_font) ==
  [name |-> IF source_font.name # "None" THEN source_font.name ELSE target_font.name,
   size |-> IF source_font.size # "None" THEN source_font.size ELSE target_font.size,
   bold |-> IF source_font.bold # "None" THEN source_font.bold ELSE target_font.bold,
   italic |-> IF source_font.italic # "None" THEN source_font.italic ELSE target_font.italic,
   underline |-> IF source_font.underline # "None" THEN source_font.underline
                 ELSE target_font.underline,
   rgb |-> IF source_font.rgb # "None" THEN source_font.rgb ELSE target_font.rgb]

\* paragraph.add_run(text) and clone_run_formatting(template_run, the new run)
AddRunCloned(p, text, template_font) ==
  WithLastFont(add_run(p, text), clone_run_formatting(template_font, NoFont))

\* label_text.endswith(' ')
EndsWithSpace(text) == text # << >> /\ text[Len(text)] = " "

\* write_label_and_value(paragraph, label_text, value_text); template_run is
\* << the font of paragraph.runs[0] >>, or << >> for None
write_label_and_value(p, label_text, value_text) ==
  LET template_run == IF Len(p.runs) > 0 THEN << p.fonts[1] >> ELSE << >>
      cleared == [p EXCEPT !.runs = << >>, !.fonts = << >>]
      labelled ==
        IF label_text = << >> THEN cleared
        ELSE IF template_run # << >> THEN AddRunCloned(cleared, label_text, template_run[1])
        ELSE add_run_with_default_font(cleared, label_text)
      spaced ==
        IF label_text = << >> \/ EndsWithSpace(label_text) THEN labelled
        ELSE IF template_run # << >> THEN AddRunCloned(labelled, << " " >>, template_run[1])
        ELSE add_run_with_default_font(labelled, << " " >>)
  IN IF value_text # << >> THEN add_run_with_default_font(spaced, value_text) ELSE spaced

\* the texts of at most n characters out of chars
RECURSIVE CharTexts(_, _)
CharTexts(chars, n) ==
  IF n = 0 THEN {<< >>}
  ELSE LET shorter == CharTexts(chars, n - 1)
       IN shorter \cup {Append(t, c) : t \in shorter, c \in chars}

LabelTexts == CharTexts({"a", " "}, MaxLabelChars)

ValueTexts == {<< >>, << "v" >>}

InitLabel ==
  /\ \E n \in 0..MaxRuns :
       \E first \in FirstRunFonts, later \in [2..n -> LaterRunFonts] :
         paragraph = [id |-> 1, runs |-> [m \in 1..n |-> << "x" >>],
                      fonts |-> [m \in 1..n |-> IF m = 1 THEN first ELSE later[m]]]
  /\ paragraph0 = paragraph
  /\ \E label_text \in LabelTexts, value_text \in ValueTexts :
       label_args = [label_text |-> label_text, value_text |-> value_text]
  /\ replace_args = [old_text |-> "", new_text |-> << >>, force_default_font |-> FALSE]
  /\ replace_ret = "None"
  /\ list_args = << >>
  /\ list_ret = "None"
  /\ doc = << >>
  /\ tables = << >>
  /\ nextId = 2
  /\ doc0 = doc
  /\ pc = "call"
  /\ exc = "none"
  /\ FillIdle
  /\ MarkerIdle
  /\ HeaderIdle
  /\ DocumentIdle
  /\ DateIdle
  /\ PipelineIdle
  /\ BotIdle

\* write_label_and_value(paragraph, label_text, value_text)
WriteLabelAndValue ==
  /\ pc = "call"
  /\ paragraph' = write_label_and_value(paragraph, label_args.label_text,
                                        label_args.value_text)
  /\ pc' = "returned"
  /\ UNCHANGED << doc, tables, nextId, exc, doc0, paragraph0, replace_args, replace_ret >>
  /\ UNCHANGED << fillVars, saveVars, markerVars, headerVars, laterVars, documentVars,
                  dateVars, pipelineVars >>

NextLabel ==
  \/ WriteLabelAndValue

SpecLabel == InitLabel /\ [][NextLabel]_vars

\* C22: after write_label_and_value with a label and a value that are not
\* empty, the runs of the paragraph are the label, then one space exactly
\* when the label does not end with a space, then the value; the font of the
\* label run has the name, size, bold, italic, underline and colour of the
\* former first run, or is the default font when the paragraph had no run;
\* the value run has the default font, bold and italic not set.
C22_LabelSpaceValueRuns ==
  (pc = "returned" /\ label_args.label_text # << >> /\ label_args.value_text # << >>) =>
    LET label_font == IF Len(paragraph0.runs) > 0 THEN paragraph0.fonts[1]
                      ELSE apply_default_font(NoFont)
        last == Len(paragraph.runs)
    IN /\ paragraph.runs =
            IF EndsWithSpace(label_args.label_text)
            THEN << label_args.label_text, label_args.value_text >>
            ELSE << label_args.label_text, << " " >>, label_args.value_text >>
       /\ Len(paragraph.fonts) = last
       /\ paragraph.fonts[1] = label_font
       /\ paragraph.fonts[last].name = DEFAULT_FONT_NAME
       /\ paragraph.fonts[last].size = DEFAULT_FONT_SIZE_PT
       /\ paragraph.fonts[last].bold = "None"
       /\ paragraph.fonts[last].italic = "None"

\* a bold italic first run, a label without a space at its end and a value:
\* three runs, the label bold and italic
C22_BoldLabelPlainValue ==
  /\ pc = "returned"
  /\ Len(paragraph0.runs) > 0
  /\ paragraph0.fonts[1].bold = "True"
  /\ paragraph0.fonts[1].italic = "True"
  /\ label_args.label_text = << "a" >>
  /\ label_args.value_text = << "v" >>
  /\ Len(paragraph.runs) = 3
  /\ paragraph.fonts[1].bold = "True"

----------------------------------------------------------------------------
(* The table variant of the slot search, under SpecSlot                    *)

\* the cell holds nothing but empty paragraphs, glyphs or '{{'
FreeCell(cell) == \A n \in 1..Len(cell) : IsGlyph(cell[n].text) \/ HasBraces(cell[n].text)

\* C21: a header found in a table cell of a row of several cells has its
\* slot in the next cell of the row if there is one, otherwise in the cell
\* below the header in the same column, otherwise in the first free cell of
\* the header's row; in a row of one cell the header cell is handed to
\* fill_by_header, which writes below it or over it.
C21_TableSlotByRowShape ==
  LET header_info == find_section_by_header(doc, tables, keywords)
  IN (pc = "slot_found" /\ header_info.type = "table") =>
       LET pos == header_info.pos
           table == tables[pos[1]]
           row == table[pos[2]]
           free == {c \in 1..Len(row) : FreeCell(row[c])}
       IN IF Len(row) = 1 THEN target.pos = pos
          ELSE IF pos[3] + 1 <= Len(row)
          THEN target.pos = << pos[1], pos[2], pos[3] + 1 >>
          ELSE IF pos[2] + 1 <= Len(table) /\ pos[3] <= Len(table[pos[2] + 1])
          THEN target.pos = << pos[1], pos[2] + 1, pos[3] >>
          ELSE free # {} => target.pos = << pos[1], pos[2], Min(free) >>

====
